---- MODULE Spec2Model ----
(***************************************************************************)
(* The shopping-game generator of textworld/challenges/tw_shopping         *)
(* (testing.py): the grid layout search RandomWalk.place_rooms / _walk,    *)
(* and make(): doors, furniture, recipe, quests and walkthrough.           *)
(*                                                                         *)
(* Random streams are seeded generators: a stream is its current state, a  *)
(* draw advances it; shuffles are Fisher-Yates over the stream, so a run   *)
(* is a function of its seeds and settings.  A setting is an input of      *)
(* make; it is drawn by the step that first reads it and kept afterwards.  *)
(***************************************************************************)
EXTENDS Integers, Sequences, FiniteSets, TLC

(***************************************************************************)
(* Static catalogs (testing.py, module level).                             *)
(***************************************************************************)
\* {}
EmptyDict ==
  << >>

\* a Python dict, from its keys and its values in insertion order: the
\* pairs, merged into the empty dict
Dict(keys, values) ==
  [k \in {keys[i] : i \in DOMAIN keys} |-> values[CHOOSE i \in DOMAIN keys : keys[i] = k]] @@ EmptyDict

TYPES_OF_COOKING ==
  <<"raw", "fried", "roasted", "grilled">>

TYPES_OF_CUTTING ==
  <<"uncut", "chopped", "sliced", "diced">>

FOODS_SPLITS_train ==
  <<
    "jeans", "t-shirt", "socks", "suit", "sweater", "toothpaste", "toothbrush", "deodorant",
    "detergent", "sponge", "broccoli", "aubergine", "red radish", "mango", "plum",
    "white grapes", "salmon", "pork bacon", "pen", "paper", "eraser", "scissors", "notebook",
    "smartphone", "vacuum cleaner", "monitor", "kettle", "microwave", "condensed milk",
    "cumin powder", "dark chocolate", "chicken alfredo", "meat shawarma", "tandoori chicken",
    "shrimp pizza", "corned beef", "orange bell pepper", "block of cheese", "black pepper",
    "red hot pepper", "yellow bell pepper", "banana", "salt", "chicken leg", "cilantro",
    "white onion", "purple potato", "olive oil", "flour", "red onion", "yellow potato",
    "parsley", "red potato", "water", "pork chop", "red apple", "chicken wing", "carrot"
  >>

FOODS_SPLITS_valid ==
  <<
    "shorts", "shirt", "jacket", "skirt", "bra", "cotton balls", "q tips", "bar soap",
    "shampoo", "lotion", "spinach", "pink radish", "pineapple", "red grapes", "beef bacon",
    "cod", "paper clips", "stapler", "folder", "coffee maker", "keyboard", "dehumidifier",
    "milk chocolate", "maple syrup", "beef lasagne", "cheeseburger", "cottage pie",
    "vegetable oil", "green apple", "red tuna", "green bell pepper", "red bell pepper",
    "lettuce", "peanut oil", "chicken breast"
  >>

FOODS_SPLITS_test ==
  <<
    "coat", "boots", "hoodie", "boxer shortsscarf", "dental floss", "tissues", "broomstick",
    "conditioner", "hand sanitiser", "black radish", "black grapes", "turkey bacon", "pencil",
    "fountain pen", "highlighter", "blender", "smartwatchwhite chocolate", "honey",
    "shepherds piefried chicken", "milk", "yellow onion", "yellow apple", "sugar", "egg",
    "green hot pepper", "white tuna", "tomato"
  >>

FOODS_SPLITS ==
  [train |-> FOODS_SPLITS_train, valid |-> FOODS_SPLITS_valid, test |-> FOODS_SPLITS_test]

FOOD_PREPARATIONS_SPLITS_train_keys ==
  <<
    "jeans", "t-shirt", "socks", "suit", "sweater", "toothpaste", "toothbrush", "deodorant",
    "detergent", "sponge", "broccoli", "aubergine", "red radish", "mango", "plum",
    "white grapes", "salmon", "pork bacon", "pen", "paper", "eraser", "scissors", "notebook",
    "smartphone", "vacuum cleaner", "monitor", "kettle", "microwave", "condensed milk",
    "cumin powder", "dark chocolate", "chicken alfredo", "meat shawarma", "tandoori chicken",
    "shrimp pizza", "corned beef", "orange bell pepper", "block of cheese", "black pepper",
    "red hot pepper", "yellow bell pepper", "banana", "salt", "chicken leg", "cilantro",
    "white onion", "purple potato", "olive oil", "flour", "red onion", "yellow potato",
    "parsley", "red potato", "water", "pork chop", "red apple", "chicken wing", "carrot"
  >>

FOOD_PREPARATIONS_SPLITS_train_values ==
  <<
    <<<<"raw", "uncut">>>>,
    <<<<"raw", "uncut">>>>,
    <<<<"raw", "uncut">>>>,
    <<<<"raw", "uncut">>>>,
    <<<<"raw", "uncut">>>>,
    <<<<"raw", "uncut">>>>,
    <<<<"raw", "uncut">>>>,
    <<<<"raw", "uncut">>>>,
    <<<<"raw", "uncut">>>>,
    <<<<"raw", "uncut">>>>,
    <<<<"raw", "uncut">>>>,
    <<<<"raw", "uncut">>>>,
    <<<<"raw", "uncut">>>>,
    <<<<"raw", "uncut">>>>,
    <<<<"raw", "uncut">>>>,
    <<<<"raw", "uncut">>>>,
    <<<<"raw", "uncut">>>>,
    <<<<"raw", "uncut">>>>,
    <<<<"raw", "uncut">>>>,
    <<<<"raw", "uncut">>>>,
    <<<<"raw", "uncut">>>>,
    <<<<"raw", "uncut">>>>,
    <<<<"raw", "uncut">>>>,
    <<<<"raw", "uncut">>>>,
    <<<<"raw", "uncut">>>>,
    <<<<"raw", "uncut">>>>,
    <<<<"raw", "uncut">>>>,
    <<<<"raw", "uncut">>>>,
    <<<<"raw", "uncut">>>>,
    <<<<"raw", "uncut">>>>,
    <<<<"raw", "uncut">>>>,
    <<<<"raw", "uncut">>>>,
    <<<<"raw", "uncut">>>>,
    <<<<"raw", "uncut">>>>,
    <<<<"raw", "uncut">>>>,
    <<<<"raw", "uncut">>>>,
    <<<<"raw", "chopped">>, <<"roasted", "diced">>, <<"grilled", "uncut">>, <<"raw", "uncut">>, <<"raw", "sliced">>, <<"grilled", "sliced">>, <<"roasted", "sliced">>, <<"fried", "diced">>, <<"grilled", "chopped">>>>,
    <<<<"fried", "diced">>, <<"fried", "uncut">>, <<"grilled", "chopped">>, <<"raw", "chopped">>, <<"grilled", "diced">>, <<"roasted", "chopped">>, <<"grilled", "sliced">>, <<"raw", "uncut">>, <<"raw", "sliced">>>>,
    <<<<"raw", "uncut">>>>,
    <<<<"roasted", "sliced">>, <<"fried", "chopped">>, <<"roasted", "uncut">>, <<"fried", "sliced">>, <<"raw", "sliced">>, <<"grilled", "chopped">>, <<"fried", "uncut">>, <<"raw", "chopped">>, <<"grilled", "sliced">>>>,
    <<<<"roasted", "chopped">>, <<"grilled", "sliced">>, <<"fried", "sliced">>, <<"raw", "diced">>, <<"roasted", "diced">>, <<"fried", "chopped">>, <<"roasted", "uncut">>, <<"grilled", "uncut">>, <<"fried", "uncut">>>>,
    <<<<"grilled", "diced">>, <<"fried", "chopped">>, <<"grilled", "chopped">>, <<"grilled", "sliced">>, <<"fried", "diced">>, <<"roasted", "diced">>, <<"fried", "sliced">>, <<"raw", "sliced">>, <<"roasted", "sliced">>>>,
    <<<<"raw", "uncut">>>>,
    <<<<"grilled", "uncut">>>>,
    <<<<"raw", "uncut">>, <<"raw", "diced">>>>,
    <<<<"grilled", "uncut">>, <<"raw", "chopped">>, <<"roasted", "uncut">>, <<"roasted", "sliced">>, <<"fried", "diced">>, <<"raw", "sliced">>, <<"grilled", "chopped">>, <<"roasted", "chopped">>, <<"roasted", "diced">>>>,
    <<<<"roasted", "sliced">>, <<"roasted", "diced">>, <<"grilled", "diced">>, <<"fried", "chopped">>, <<"fried", "sliced">>, <<"fried", "diced">>, <<"roasted", "uncut">>>>,
    <<<<"raw", "uncut">>>>,
    <<<<"raw", "uncut">>>>,
    <<<<"raw", "uncut">>, <<"roasted", "uncut">>, <<"roasted", "diced">>, <<"fried", "sliced">>, <<"raw", "sliced">>, <<"grilled", "diced">>, <<"fried", "diced">>, <<"raw", "diced">>, <<"grilled", "sliced">>>>,
    <<<<"grilled", "chopped">>, <<"grilled", "sliced">>, <<"fried", "diced">>, <<"fried", "sliced">>, <<"fried", "chopped">>, <<"roasted", "chopped">>, <<"roasted", "uncut">>>>,
    <<<<"raw", "diced">>, <<"raw", "sliced">>>>,
    <<<<"roasted", "sliced">>, <<"grilled", "chopped">>, <<"fried", "uncut">>, <<"fried", "chopped">>, <<"fried", "diced">>, <<"fried", "sliced">>, <<"roasted", "diced">>>>,
    <<<<"raw", "uncut">>>>,
    <<<<"fried", "sliced">>, <<"roasted", "sliced">>, <<"grilled", "uncut">>, <<"roasted", "diced">>, <<"grilled", "diced">>, <<"fried", "uncut">>, <<"fried", "chopped">>>>,
    <<<<"grilled", "sliced">>, <<"fried", "diced">>, <<"roasted", "sliced">>, <<"fried", "sliced">>, <<"grilled", "diced">>, <<"raw", "uncut">>, <<"raw", "sliced">>, <<"raw", "diced">>, <<"roasted", "chopped">>>>,
    <<<<"grilled", "uncut">>>>,
    <<<<"roasted", "sliced">>, <<"fried", "chopped">>, <<"raw", "uncut">>, <<"grilled", "uncut">>, <<"roasted", "uncut">>, <<"grilled", "sliced">>, <<"raw", "sliced">>, <<"fried", "sliced">>, <<"raw", "chopped">>>>
  >>

FOOD_PREPARATIONS_SPLITS_valid_keys ==
  <<
    "orange bell pepper", "block of cheese", "black pepper", "red hot pepper",
    "yellow bell pepper", "banana", "salt", "chicken leg", "cilantro", "white onion",
    "purple potato", "olive oil", "flour", "red onion", "yellow potato", "parsley",
    "red potato", "water", "pork chop", "red apple", "chicken wing", "carrot"
  >>

FOOD_PREPARATIONS_SPLITS_valid_values ==
  <<
    <<<<"roasted", "chopped">>, <<"fried", "uncut">>, <<"fried", "sliced">>, <<"raw", "diced">>>>,
    <<<<"roasted", "diced">>, <<"grilled", "uncut">>, <<"raw", "diced">>, <<"roasted", "sliced">>>>,
    <<<<"raw", "uncut">>>>,
    <<<<"raw", "diced">>, <<"roasted", "chopped">>, <<"roasted", "diced">>, <<"grilled", "diced">>>>,
    <<<<"raw", "chopped">>, <<"roasted", "sliced">>, <<"fried", "diced">>, <<"raw", "sliced">>>>,
    <<<<"roasted", "uncut">>, <<"grilled", "uncut">>, <<"raw", "diced">>, <<"roasted", "chopped">>>>,
    <<<<"raw", "uncut">>>>,
    <<<<"fried", "uncut">>>>,
    <<<<"raw", "sliced">>>>,
    <<<<"grilled", "sliced">>, <<"raw", "diced">>, <<"fried", "chopped">>, <<"fried", "uncut">>>>,
    <<<<"grilled", "chopped">>, <<"grilled", "uncut">>, <<"fried", "uncut">>>>,
    <<<<"raw", "uncut">>>>,
    <<<<"raw", "uncut">>>>,
    <<<<"roasted", "chopped">>, <<"fried", "chopped">>, <<"fried", "uncut">>, <<"grilled", "chopped">>>>,
    <<<<"roasted", "diced">>, <<"grilled", "uncut">>, <<"grilled", "diced">>>>,
    <<<<"raw", "uncut">>>>,
    <<<<"grilled", "diced">>, <<"grilled", "sliced">>, <<"roasted", "chopped">>>>,
    <<<<"raw", "uncut">>>>,
    <<<<"fried", "diced">>, <<"roasted", "chopped">>, <<"roasted", "uncut">>>>,
    <<<<"raw", "chopped">>, <<"roasted", "diced">>, <<"grilled", "uncut">>, <<"fried", "chopped">>>>,
    <<<<"roasted", "uncut">>>>,
    <<<<"grilled", "chopped">>, <<"fried", "uncut">>, <<"roasted", "chopped">>, <<"roasted", "diced">>>>
  >>

FOOD_PREPARATIONS_SPLITS_test_keys ==
  <<
    "orange bell pepper", "block of cheese", "black pepper", "red hot pepper",
    "yellow bell pepper", "banana", "salt", "chicken leg", "cilantro", "white onion",
    "purple potato", "olive oil", "flour", "red onion", "yellow potato", "parsley",
    "red potato", "water", "pork chop", "red apple", "chicken wing", "carrot"
  >>

FOOD_PREPARATIONS_SPLITS_test_values ==
  <<
    <<<<"roasted", "uncut">>, <<"fried", "chopped">>, <<"grilled", "diced">>>>,
    <<<<"fried", "chopped">>, <<"roasted", "uncut">>, <<"fried", "sliced">>>>,
    <<<<"raw", "uncut">>>>,
    <<<<"raw", "uncut">>, <<"grilled", "uncut">>, <<"fried", "diced">>>>,
    <<<<"grilled", "chopped">>, <<"raw", "uncut">>, <<"grilled", "diced">>>>,
    <<<<"raw", "chopped">>, <<"fried", "uncut">>, <<"raw", "uncut">>>>,
    <<<<"raw", "uncut">>>>,
    <<<<"roasted", "uncut">>>>,
    <<<<"raw", "chopped">>>>,
    <<<<"raw", "uncut">>, <<"fried", "sliced">>, <<"grilled", "diced">>>>,
    <<<<"grilled", "sliced">>, <<"roasted", "chopped">>>>,
    <<<<"raw", "uncut">>>>,
    <<<<"raw", "uncut">>>>,
    <<<<"raw", "chopped">>, <<"grilled", "uncut">>, <<"roasted", "sliced">>>>,
    <<<<"fried", "uncut">>, <<"roasted", "sliced">>>>,
    <<<<"raw", "chopped">>>>,
    <<<<"grilled", "uncut">>, <<"roasted", "uncut">>>>,
    <<<<"raw", "uncut">>>>,
    <<<<"grilled", "sliced">>, <<"grilled", "chopped">>>>,
    <<<<"fried", "uncut">>, <<"roasted", "uncut">>, <<"grilled", "chopped">>>>,
    <<<<"fried", "uncut">>>>,
    <<<<"raw", "diced">>, <<"grilled", "diced">>, <<"fried", "diced">>>>
  >>

FOOD_PREPARATIONS_SPLITS ==
  [train |-> Dict(FOOD_PREPARATIONS_SPLITS_train_keys, FOOD_PREPARATIONS_SPLITS_train_values),
   valid |-> Dict(FOOD_PREPARATIONS_SPLITS_valid_keys, FOOD_PREPARATIONS_SPLITS_valid_values),
   test  |-> Dict(FOOD_PREPARATIONS_SPLITS_test_keys, FOOD_PREPARATIONS_SPLITS_test_values)]

FOODS_keys ==
  <<
    "jeans", "t-shirt", "socks", "suit", "sweater", "shorts", "shirt", "jacket", "skirt", "bra",
    "coat", "boots", "hoodie", "boxer shorts", "scarf", "toothpaste", "toothbrush", "deodorant",
    "detergent", "sponge", "cotton balls", "q tips", "bar soap", "shampoo", "lotion",
    "dental floss", "tissues", "broomstick", "conditioner", "hand santiser", "broccoli",
    "aubergine", "red radish", "spinach", "pink radish", "black radish", "black grapes",
    "red grapes", "white grapes", "pineapple", "mango", "plum", "turkey bacon", "beef bacon",
    "pork bacon", "cod", "salmon", "pen", "paper", "eraser", "scissors", "notebook",
    "paper clips", "stapler", "folder", "pencil", "fountain pen", "highlighter", "smartphone",
    "vacuum cleaner", "monitor", "kettle", "microwave", "coffee maker", "keyboard",
    "dehumidifier", "blender", "smartwatch", "condensed milk", "cumin powder", "dark chocolate",
    "milk chocolate", "maple syrup", "white chocolate", "honey", "chicken alfredo",
    "meat shawarma", "tandoori chicken", "shrimp pizza", "corned beef", "beef lasagne",
    "cheeseburger", "cottage pie", "shepherds pie", "fried chicken", "egg", "milk", "water",
    "vegetable oil", "peanut oil", "olive oil", "chicken wing", "chicken leg", "chicken breast",
    "pork chop", "red tuna", "white tuna", "carrot", "red onion", "white onion", "yellow onion",
    "lettuce", "red potato", "yellow potato", "purple potato", "red apple", "yellow apple",
    "green apple", "banana", "tomato", "red hot pepper", "green hot pepper", "red bell pepper",
    "yellow bell pepper", "green bell pepper", "orange bell pepper", "black pepper", "flour",
    "salt", "sugar", "block of cheese", "cilantro", "parsley"
  >>

FOODS_values ==
  <<
    [properties |-> <<"inedible">>, locations |-> <<"clothing.clothing showcase", "checkout.showcase">>],
    [properties |-> <<"inedible">>, locations |-> <<"clothing.clothing showcase", "checkout.showcase">>],
    [properties |-> <<"inedible">>, locations |-> <<"clothing.clothing showcase", "checkout.showcase">>],
    [properties |-> <<"inedible">>, locations |-> <<"clothing.clothing showcase", "checkout.showcase">>],
    [properties |-> <<"inedible">>, locations |-> <<"clothing.clothing showcase", "checkout.showcase">>],
    [properties |-> <<"inedible">>, locations |-> <<"clothing.clothing showcase", "checkout.showcase">>],
    [properties |-> <<"inedible">>, locations |-> <<"clothing.clothing showcase", "checkout.showcase">>],
    [properties |-> <<"inedible">>, locations |-> <<"clothing.clothing showcase", "checkout.showcase">>],
    [properties |-> <<"inedible">>, locations |-> <<"clothing.clothing showcase", "checkout.showcase">>],
    [properties |-> <<"inedible">>, locations |-> <<"clothing.clothing showcase", "checkout.showcase">>],
    [properties |-> <<"inedible">>, locations |-> <<"clothing.clothing showcase", "checkout.showcase">>],
    [properties |-> <<"inedible">>, locations |-> <<"clothing.clothing showcase", "checkout.showcase">>],
    [properties |-> <<"inedible">>, locations |-> <<"clothing.clothing showcase", "checkout.showcase">>],
    [properties |-> <<"inedible">>, locations |-> <<"clothing.clothing showcase", "checkout.showcase">>],
    [properties |-> <<"inedible">>, locations |-> <<"clothing.clothing showcase", "checkout.showcase">>],
    [properties |-> <<"inedible">>, locations |-> <<"hygiene.hygiene shelf", "checkout.shelf">>],
    [properties |-> <<"inedible">>, locations |-> <<"hygiene.hygiene shelf", "checkout.shelf">>],
    [properties |-> <<"inedible">>, locations |-> <<"hygiene.hygiene shelf", "checkout.shelf">>],
    [properties |-> <<"inedible">>, locations |-> <<"hygiene.hygiene shelf", "checkout.shelf">>],
    [properties |-> <<"inedible">>, locations |-> <<"hygiene.hygiene shelf", "checkout.shelf">>],
    [properties |-> <<"inedible">>, locations |-> <<"hygiene.hygiene shelf", "checkout.shelf">>],
    [properties |-> <<"inedible">>, locations |-> <<"hygiene.hygiene shelf", "checkout.shelf">>],
    [properties |-> <<"inedible">>, locations |-> <<"hygiene.hygiene showcase", "checkout.showcase">>],
    [properties |-> <<"inedible">>, locations |-> <<"hygiene.hygiene showcase", "checkout.showcase">>],
    [properties |-> <<"inedible">>, locations |-> <<"hygiene.ingredients showcase", "checkout.showcase">>],
    [properties |-> <<"inedible">>, locations |-> <<"hygiene.hygiene showcase", "checkout.showcase">>],
    [properties |-> <<"inedible">>, locations |-> <<"hygiene.hygiene shelf", "checkout.shelf">>],
    [properties |-> <<"inedible">>, locations |-> <<"hygiene.hygiene shelf", "checkout.shelf">>],
    [properties |-> <<"inedible">>, locations |-> <<"hygiene.hygiene showcase", "checkout.showcase">>],
    [properties |-> <<"inedible">>, locations |-> <<"hygiene.hygiene showcase", "checkout.showcase">>],
    [properties |-> <<"edible">>, locations |-> <<"vegetables.green veg basket", "checkout.basket">>],
    [properties |-> <<"edible">>, locations |-> <<"vegetables.veg basket", "checkout.basket">>],
    [properties |-> <<"edible">>, locations |-> <<"vegetables.veg fridge", "checkout.fridge">>],
    [properties |-> <<"edible">>, locations |-> <<"vegetables.veg fridge", "checkout.fridge">>],
    [properties |-> <<"edible">>, locations |-> <<"vegetables.veg fridge", "checkout.fridge">>],
    [properties |-> <<"edible">>, locations |-> <<"vegetables.veg fridge", "checkout.fridge">>],
    [properties |-> <<"edible">>, locations |-> <<"fruits.fruit basket", "checkout.basket">>],
    [properties |-> <<"edible">>, locations |-> <<"fruits.fruit basket", "checkout.basket">>],
    [properties |-> <<"edible">>, locations |-> <<"fruits.fruit basket", "checkout.basket">>],
    [properties |-> <<"edible">>, locations |-> <<"fruits.yellow basket", "checkout.basket">>],
    [properties |-> <<"edible">>, locations |-> <<"fruits.yellow basket", "checkout.basket">>],
    [properties |-> <<"edible">>, locations |-> <<"fruits.fruit basket", "checkout.basket">>],
    [properties |-> <<"edible">>, locations |-> <<"meats.meats fridge", "checkout.fridge">>],
    [properties |-> <<"edible">>, locations |-> <<"meats.meats fridge", "checkout.fridge">>],
    [properties |-> <<"edible">>, locations |-> <<"meats.meats fridge", "checkout.fridge">>],
    [properties |-> <<"edible">>, locations |-> <<"meats.meats showcase", "checkout.showcase">>],
    [properties |-> <<"edible">>, locations |-> <<"meats.meats showcase", "checkout.showcase">>],
    [properties |-> <<"edible">>, locations |-> <<"stationery.stationery shelf", "checkout.shelf">>],
    [properties |-> <<"edible">>, locations |-> <<"stationery.stationery shelf", "checkout.shelf">>],
    [properties |-> <<"edible">>, locations |-> <<"stationery.stationery shelf", "checkout.shelf">>],
    [properties |-> <<"edible">>, locations |-> <<"stationery.stationery shelf", "checkout.shelf">>],
    [properties |-> <<"edible">>, locations |-> <<"stationery.stationery shelf", "checkout.shelf">>],
    [properties |-> <<"edible">>, locations |-> <<"stationery.stationery shelf", "checkout.shelf">>],
    [properties |-> <<"edible">>, locations |-> <<"stationery.stationery shelf", "checkout.shelf">>],
    [properties |-> <<"edible">>, locations |-> <<"stationery.stationery shelf", "checkout.shelf">>],
    [properties |-> <<"edible">>, locations |-> <<"stationery.stationery shelf", "checkout.shelf">>],
    [properties |-> <<"edible">>, locations |-> <<"stationery.stationery shelf", "checkout.shelf">>],
    [properties |-> <<"edible">>, locations |-> <<"stationery.stationery shelf", "checkout.shelf">>],
    [properties |-> <<"edible">>, locations |-> <<"hardware.hardware shelf", "checkout.shelf">>],
    [properties |-> <<"edible">>, locations |-> <<"hardware.hardware shelf", "checkout.shelf">>],
    [properties |-> <<"edible">>, locations |-> <<"hardware.hardware shelf", "checkout.shelf">>],
    [properties |-> <<"edible">>, locations |-> <<"hardware.hardware shelf", "checkout.shelf">>],
    [properties |-> <<"edible">>, locations |-> <<"hardware.hardware shelf", "checkout.shelf">>],
    [properties |-> <<"edible">>, locations |-> <<"hardware.hardware shelf", "checkout.shelf">>],
    [properties |-> <<"edible">>, locations |-> <<"hardware.hardware shelf", "checkout.shelf">>],
    [properties |-> <<"edible">>, locations |-> <<"hardware.hardware shelf", "checkout.shelf">>],
    [properties |-> <<"edible">>, locations |-> <<"hardware.hardware shelf", "checkout.shelf">>],
    [properties |-> <<"edible">>, locations |-> <<"hardware.hardware shelf", "checkout.shelf">>],
    [properties |-> <<"edible">>, locations |-> <<"ingredients.ingredients shelf", "checkout.shelf">>],
    [properties |-> <<"edible">>, locations |-> <<"ingredients.ingredients shelf", "checkout.shelf">>],
    [properties |-> <<"edible">>, locations |-> <<"ingredients.ingredients shelf", "checkout.shelf">>],
    [properties |-> <<"edible">>, locations |-> <<"ingredients.ingredients shelf", "checkout.shelf">>],
    [properties |-> <<"edible">>, locations |-> <<"ingredients.ingredients shelf", "checkout.shelf">>],
    [properties |-> <<"edible">>, locations |-> <<"ingredients.ingredients shelf", "checkout.shelf">>],
    [properties |-> <<"edible">>, locations |-> <<"ingredients.ingredients shelf", "checkout.shelf">>],
    [properties |-> <<"edible">>, locations |-> <<"restaurant.restaurant table", "checkout.shelf">>],
    [properties |-> <<"edible">>, locations |-> <<"restaurant.restaurant table", "checkout.shelf">>],
    [properties |-> <<"edible">>, locations |-> <<"restaurant.restaurant table", "checkout.shelf">>],
    [properties |-> <<"edible">>, locations |-> <<"restaurant.restaurant table", "checkout.shelf">>],
    [properties |-> <<"edible">>, locations |-> <<"restaurant.restaurant table", "checkout.shelf">>],
    [properties |-> <<"edible">>, locations |-> <<"restaurant.restaurant table", "checkout.shelf">>],
    [properties |-> <<"edible">>, locations |-> <<"restaurant.restaurant table", "checkout.shelf">>],
    [properties |-> <<"edible">>, locations |-> <<"restaurant.restaurant table", "checkout.shelf">>],
    [properties |-> <<"edible">>, locations |-> <<"restaurant.restaurant table", "checkout.shelf">>],
    [properties |-> <<"edible">>, locations |-> <<"restaurant.restaurant table", "checkout.shelf">>],
    [properties |-> <<"inedible", "cookable", "needs_cooking">>, locations |-> <<"ingredients.ingredients fridge", "checkout.fridge">>],
    [properties |-> <<"drinkable", "inedible">>, locations |-> <<"ingredients.ingredients fridge", "checkout.fridge">>],
    [properties |-> <<"drinkable", "inedible">>, locations |-> <<"ingredients.ingredients fridge", "checkout.fridge">>],
    [properties |-> <<"inedible">>, locations |-> <<"ingredients.ingredients shelf">>],
    [properties |-> <<"inedible">>, locations |-> <<"ingredients.ingredients shelf">>],
    [properties |-> <<"inedible">>, locations |-> <<"ingredients.ingredients shelf">>],
    [properties |-> <<"inedible", "cookable", "needs_cooking">>, locations |-> <<"meats.meats showcase", "meats.meats fridge", "checkout.fridge">>],
    [properties |-> <<"inedible", "cookable", "needs_cooking">>, locations |-> <<"meats.meats showcase", "meats.meats fridge", "checkout.fridge">>],
    [properties |-> <<"inedible", "cookable", "needs_cooking">>, locations |-> <<"meats.meats showcase", "meats.meats fridge", "checkout.fridge">>],
    [properties |-> <<"inedible", "cookable", "needs_cooking", "cuttable", "uncut">>, locations |-> <<"meats.meats showcase", "meats.meats fridge", "checkout.fridge">>],
    [properties |-> <<"inedible", "cookable", "needs_cooking", "cuttable", "uncut">>, locations |-> <<"meats.meats showcase", "meats.meats fridge", "checkout.fridge">>],
    [properties |-> <<"inedible", "cookable", "needs_cooking", "cuttable", "uncut">>, locations |-> <<"meats.meats showcase", "meats.meats fridge", "checkout.fridge">>],
    [properties |-> <<"edible", "cookable", "raw", "cuttable", "uncut">>, locations |-> <<"vegetables.orange basket", "vegetables.veg fridge", "checkout.fridge">>],
    [properties |-> <<"edible", "cookable", "raw", "cuttable", "uncut">>, locations |-> <<"vegetables.veg basket", "vegetables.veg fridge", "checkout.fridge">>],
    [properties |-> <<"edible", "cookable", "raw", "cuttable", "uncut">>, locations |-> <<"vegetables.veg basket", "vegetables.veg fridge", "checkout.fridge">>],
    [properties |-> <<"edible", "cookable", "raw", "cuttable", "uncut">>, locations |-> <<"vegetables.veg basket", "vegetables.veg fridge", "checkout.fridge">>],
    [properties |-> <<"edible", "cookable", "raw", "cuttable", "uncut">>, locations |-> <<"vegetables.green veg basket", "vegetables.veg fridge", "checkout.fridge">>],
    [properties |-> <<"inedible", "cookable", "needs_cooking", "cuttable", "uncut">>, locations |-> <<"vegetables.veg basket", "vegetables.veg fridge", "checkout.fridge">>],
    [properties |-> <<"inedible", "cookable", "needs_cooking", "cuttable", "uncut">>, locations |-> <<"vegetables.veg basket", "vegetables.veg fridge", "checkout.fridge">>],
    [properties |-> <<"inedible", "cookable", "needs_cooking", "cuttable", "uncut">>, locations |-> <<"vegetables.veg basket", "vegetables.veg fridge", "checkout.fridge">>],
    [properties |-> <<"edible", "cookable", "raw", "cuttable", "uncut">>, locations |-> <<"fruits.fruit basket", "fruits.fruits fridge", "checkout.fridge">>],
    [properties |-> <<"edible", "cookable", "raw", "cuttable", "uncut">>, locations |-> <<"fruits.fruit basket", "fruits.fruits fridge", "checkout.fridge">>],
    [properties |-> <<"edible", "cookable", "raw", "cuttable", "uncut">>, locations |-> <<"fruits.fruit basket", "fruits.fruits fridge", "checkout.fridge">>],
    [properties |-> <<"edible", "cookable", "raw", "cuttable", "uncut">>, locations |-> <<"fruits.yellow basket", "fruits.fruits fridge", "checkout.fridge">>],
    [properties |-> <<"edible", "cookable", "raw", "cuttable", "uncut">>, locations |-> <<"vegetables.red veg basket", "vegetables.veg fridge", "checkout.fridge">>],
    [properties |-> <<"edible", "cookable", "raw", "cuttable", "uncut">>, locations |-> <<"vegetables.veg basket", "vegetables.veg fridge", "checkout.fridge">>],
    [properties |-> <<"edible", "cookable", "raw", "cuttable", "uncut">>, locations |-> <<"vegetables.veg basket", "vegetables.veg fridge", "checkout.fridge">>],
    [properties |-> <<"edible", "cookable", "raw", "cuttable", "uncut">>, locations |-> <<"vegetables.veg basket", "vegetables.veg fridge", "checkout.fridge">>],
    [properties |-> <<"edible", "cookable", "raw", "cuttable", "uncut">>, locations |-> <<"vegetables.veg basket", "vegetables.veg fridge", "checkout.fridge">>],
    [properties |-> <<"edible", "cookable", "raw", "cuttable", "uncut">>, locations |-> <<"vegetables.veg basket", "vegetables.veg fridge", "checkout.fridge">>],
    [properties |-> <<"edible", "cookable", "raw", "cuttable", "uncut">>, locations |-> <<"vegetables.veg basket", "vegetables.veg fridge", "checkout.fridge">>],
    [properties |-> <<"edible">>, locations |-> <<"ingredients.ingredients shelf">>],
    [properties |-> <<"edible">>, locations |-> <<"ingredients.ingredients shelf">>],
    [properties |-> <<"edible">>, locations |-> <<"ingredients.ingredients shelf">>],
    [properties |-> <<"edible">>, locations |-> <<"ingredients.ingredients shelf">>],
    [properties |-> <<"edible", "cookable", "raw", "cuttable", "uncut">>, locations |-> <<"ingredients.ingredients fridge", "ingredients.ingredients showcase", "checkout.fridge">>],
    [properties |-> <<"edible", "cuttable", "uncut">>, locations |-> <<"vegetables.green veg basket", "vegetables.veg fridge", "checkout.fridge">>],
    [properties |-> <<"edible", "cuttable", "uncut">>, locations |-> <<"vegetables.green veg basket", "vegetables.veg fridge", "checkout.fridge">>]
  >>

FOODS ==
  Dict(FOODS_keys, FOODS_values)

ENTITIES_keys ==
  <<
    "cookbook", "knife", "shopping list", "fridge", "ingredients fridge", "veg fridge",
    "fruits fridge", "meats fridge", "basket", "veg basket", "fruit basket", "red veg basket",
    "red fruit basket", "green veg basket", "green fruit basket", "yellow basket",
    "orange basket", "counter", "stove", "oven", "shelf", "hygiene shelf", "ingredients shelf",
    "stationery shelf", "hardware shelf", "BBQ", "restaurant table", "restaurant chair",
    "showcase", "hygiene showcase", "clothing showcase", "meats showcase",
    "ingreditents showcase", "sofa", "toilet", "donation box", "tips box"
  >>

ENTITIES_values ==
  <<
    [type |-> "o", locations |-> <<"checkout.counter">>, properties |-> <<>>],
    [type |-> "o", locations |-> <<"checkout.counter", "hardware.hardware shelf">>, properties |-> <<"sharp">>],
    [type |-> "o", locations |-> <<"checkout.counter">>, properties |-> <<>>],
    [type |-> "c", locations |-> <<"checkout">>, properties |-> <<"closed">>],
    [type |-> "c", locations |-> <<"ingredients">>, properties |-> <<"closed">>],
    [type |-> "c", locations |-> <<"vegetables">>, properties |-> <<"closed">>],
    [type |-> "c", locations |-> <<"fruits">>, properties |-> <<"closed">>],
    [type |-> "c", locations |-> <<"meats">>, properties |-> <<"closed">>],
    [type |-> "c", locations |-> <<"checkout">>, properties |-> <<"closed">>],
    [type |-> "c", locations |-> <<"vegetables">>, properties |-> <<"closed">>],
    [type |-> "c", locations |-> <<"fruits">>, properties |-> <<"closed">>],
    [type |-> "c", locations |-> <<"vegetables">>, properties |-> <<"closed">>],
    [type |-> "c", locations |-> <<"fruits">>, properties |-> <<"closed">>],
    [type |-> "c", locations |-> <<"vegetables">>, properties |-> <<"closed">>],
    [type |-> "c", locations |-> <<"fruits">>, properties |-> <<"closed">>],
    [type |-> "c", locations |-> <<"fruits">>, properties |-> <<"closed">>],
    [type |-> "c", locations |-> <<"vegetables">>, properties |-> <<"closed">>],
    [type |-> "s", locations |-> <<"checkout">>, properties |-> <<>>],
    [type |-> "stove", locations |-> <<"checkout">>, properties |-> <<>>],
    [type |-> "oven", locations |-> <<"checkout">>, properties |-> <<>>],
    [type |-> "s", locations |-> <<"checkout">>, properties |-> <<>>],
    [type |-> "s", locations |-> <<"hygiene">>, properties |-> <<>>],
    [type |-> "s", locations |-> <<"ingredients">>, properties |-> <<>>],
    [type |-> "s", locations |-> <<"stationery">>, properties |-> <<>>],
    [type |-> "s", locations |-> <<"hardware">>, properties |-> <<>>],
    [type |-> "toaster", locations |-> <<"restaurant">>, properties |-> <<>>],
    [type |-> "s", locations |-> <<"restaurant">>, properties |-> <<>>],
    [type |-> "s", locations |-> <<"restaurant">>, properties |-> <<>>],
    [type |-> "s", locations |-> <<"checkout">>, properties |-> <<>>],
    [type |-> "s", locations |-> <<"hygiene">>, properties |-> <<>>],
    [type |-> "s", locations |-> <<"clothing">>, properties |-> <<>>],
    [type |-> "s", locations |-> <<"meats">>, properties |-> <<>>],
    [type |-> "s", locations |-> <<"ingredients">>, properties |-> <<>>],
    [type |-> "s", locations |-> <<"restaurant">>, properties |-> <<>>],
    [type |-> "s", locations |-> <<"restaurant">>, properties |-> <<>>],
    [type |-> "c", locations |-> <<"checkout", "restaurant">>, properties |-> <<"closed">>],
    [type |-> "c", locations |-> <<"restaurant">>, properties |-> <<"closed">>]
  >>

ENTITIES ==
  Dict(ENTITIES_keys, ENTITIES_values)

NEIGHBORS_keys ==
  <<"checkout", "vegetables", "fruits", "ingredients", "clothing", "stationery", "hardware", "hygiene", "restaurant", "security", "meats", "carparking">>

NEIGHBORS_values ==
  <<
    <<"fruits", "stationery", "meats", "vegetables">>,
    <<"checkout">>,
    <<"checkout", "clothing", "restaurant", "meats">>,
    <<"meats">>,
    <<"fruits", "meats">>,
    <<"checkout", "hardware", "hygiene", "meats">>,
    <<"stationery">>,
    <<"stationery">>,
    <<"fruits", "security", "meats">>,
    <<"driveway", "carparking">>,
    <<"fruits", "checkout", "clothing", "ingredients", "restaurant", "stationery">>,
    <<"security">>
  >>

NEIGHBORS ==
  Dict(NEIGHBORS_keys, NEIGHBORS_values)

ROOMS ==
  <<
    <<"checkout">>,
    <<"vegetables", "fruits", "meats", "clothing", "ingredients">>,
    <<"hygiene", "hardware", "stationery", "restaurant">>,
    <<"security", "carparking">>
  >>

\* the table with one pair of rooms named a second time
DOORS_Repeated ==
  <<
    [path |-> <<"vegetable", "checkout">>, names |-> <<"sliding glass door", "plain door", "screen door">>],
    [path |-> <<"checkout", "stationery">>, names |-> <<"sliding glass door", "plain door", "screen door">>],
    [path |-> <<"meats", "stationery">>, names |-> <<"sliding patio door", "patio door", "screen door">>],
    [path |-> <<"stationery", "hygiene">>, names |-> <<"sliding glass door", "plain door", "screen door">>],
    [path |-> <<"fruits", "restaurant">>, names |-> <<"sliding glass door", "plain door", "screen door">>],
    [path |-> <<"meats", "restaurant">>, names |-> <<"sliding glass door", "plain door", "screen door">>],
    [path |-> <<"carparking", "security">>, names |-> <<"sliding glass door", "plain door", "screen door">>],
    [path |-> <<"stationery", "meats">>, names |-> <<"sliding glass door", "plain door", "screen door">>]
  >>

DOORS ==
  <<
    [path |-> <<"vegetable", "checkout">>, names |-> <<"sliding glass door", "plain door", "screen door">>],
    [path |-> <<"checkout", "stationery">>, names |-> <<"sliding glass door", "plain door", "screen door">>],
    [path |-> <<"meats", "stationery">>, names |-> <<"sliding patio door", "patio door", "screen door">>],
    [path |-> <<"stationery", "hygiene">>, names |-> <<"sliding glass door", "plain door", "screen door">>],
    [path |-> <<"fruits", "restaurant">>, names |-> <<"sliding glass door", "plain door", "screen door">>],
    [path |-> <<"meats", "restaurant">>, names |-> <<"sliding glass door", "plain door", "screen door">>],
    [path |-> <<"carparking", "security">>, names |-> <<"sliding glass door", "plain door", "screen door">>]
  >>

Strings ==
  <<
    "", "BBQ", "aubergine", "banana", "bar soap", "basket", "beef bacon", "beef lasagne",
    "black grapes", "black pepper", "black radish", "blender", "block of cheese", "boots",
    "boxer shorts", "boxer shortsscarf", "bra", "broccoli", "broomstick", "carparking",
    "carrot", "checkout", "checkout.basket", "checkout.counter", "checkout.fridge",
    "checkout.shelf", "checkout.showcase", "cheeseburger", "chicken alfredo", "chicken breast",
    "chicken leg", "chicken wing", "cilantro", "clothing", "clothing showcase",
    "clothing.clothing showcase", "coat", "cod", "coffee maker", "condensed milk",
    "conditioner", "cookbook", "corned beef", "cottage pie", "cotton balls", "counter",
    "cumin powder", "dark chocolate", "dehumidifier", "dental floss", "deodorant", "detergent",
    "donation box", "egg", "eraser", "flour", "folder", "fountain pen", "fridge",
    "fried chicken", "fruit basket", "fruits", "fruits fridge", "fruits.fruit basket",
    "fruits.fruits fridge", "fruits.yellow basket", "green apple", "green bell pepper",
    "green fruit basket", "green hot pepper", "green veg basket", "hand sanitiser",
    "hand santiser", "hardware", "hardware shelf", "hardware.hardware shelf", "highlighter",
    "honey", "hoodie", "hygiene", "hygiene shelf", "hygiene showcase", "hygiene.hygiene shelf",
    "hygiene.hygiene showcase", "hygiene.ingredients showcase", "ingredients",
    "ingredients fridge", "ingredients shelf", "ingredients showcase",
    "ingredients.ingredients fridge", "ingredients.ingredients shelf",
    "ingredients.ingredients showcase", "ingreditents showcase", "items", "jacket", "jeans",
    "kettle", "keyboard", "knife", "lettuce", "lotion", "mango", "maple syrup", "meat shawarma",
    "meats", "meats fridge", "meats showcase", "meats.meats fridge", "meats.meats showcase",
    "microwave", "milk", "milk chocolate", "monitor", "notebook", "olive oil", "orange basket",
    "orange bell pepper", "oven", "paper", "paper clips", "parsley", "patio door", "peanut oil",
    "pen", "pencil", "pineapple", "pink radish", "plain door", "plum", "pork bacon",
    "pork chop", "purple potato", "q tips", "red apple", "red bell pepper", "red fruit basket",
    "red grapes", "red hot pepper", "red onion", "red potato", "red radish", "red tuna",
    "red veg basket", "restaurant", "restaurant chair", "restaurant table",
    "restaurant.restaurant table", "salmon", "salt", "scarf", "scissors", "screen door",
    "security", "shampoo", "shelf", "shepherds pie", "shepherds piefried chicken", "shirt",
    "shopping list", "shorts", "showcase", "shrimp pizza", "skirt", "sliding glass door",
    "sliding patio door", "smartphone", "smartwatch", "smartwatchwhite chocolate", "socks",
    "sofa", "spinach", "sponge", "stapler", "stationery", "stationery shelf",
    "stationery.stationery shelf", "stove", "sugar", "suit", "sweater", "t-shirt",
    "tandoori chicken", "tips box", "tissues", "toilet", "tomato", "toothbrush", "toothpaste",
    "turkey bacon", "vacuum cleaner", "veg basket", "veg fridge", "vegetable", "vegetable oil",
    "vegetables", "vegetables.green veg basket", "vegetables.orange basket",
    "vegetables.red veg basket", "vegetables.veg basket", "vegetables.veg fridge", "water",
    "white chocolate", "white grapes", "white onion", "white tuna", "yellow apple",
    "yellow basket", "yellow bell pepper", "yellow onion", "yellow potato"
  >>

StringsCodePoints ==
  <<
    <<>>,
    <<66, 66, 81>>,
    <<97, 117, 98, 101, 114, 103, 105, 110, 101>>,
    <<98, 97, 110, 97, 110, 97>>,
    <<98, 97, 114, 32, 115, 111, 97, 112>>,
    <<98, 97, 115, 107, 101, 116>>,
    <<98, 101, 101, 102, 32, 98, 97, 99, 111, 110>>,
    <<98, 101, 101, 102, 32, 108, 97, 115, 97, 103, 110, 101>>,
    <<98, 108, 97, 99, 107, 32, 103, 114, 97, 112, 101, 115>>,
    <<98, 108, 97, 99, 107, 32, 112, 101, 112, 112, 101, 114>>,
    <<98, 108, 97, 99, 107, 32, 114, 97, 100, 105, 115, 104>>,
    <<98, 108, 101, 110, 100, 101, 114>>,
    <<98, 108, 111, 99, 107, 32, 111, 102, 32, 99, 104, 101, 101, 115, 101>>,
    <<98, 111, 111, 116, 115>>,
    <<98, 111, 120, 101, 114, 32, 115, 104, 111, 114, 116, 115>>,
    <<98, 111, 120, 101, 114, 32, 115, 104, 111, 114, 116, 115, 115, 99, 97, 114, 102>>,
    <<98, 114, 97>>,
    <<98, 114, 111, 99, 99, 111, 108, 105>>,
    <<98, 114, 111, 111, 109, 115, 116, 105, 99, 107>>,
    <<99, 97, 114, 112, 97, 114, 107, 105, 110, 103>>,
    <<99, 97, 114, 114, 111, 116>>,
    <<99, 104, 101, 99, 107, 111, 117, 116>>,
    <<99, 104, 101, 99, 107, 111, 117, 116, 46, 98, 97, 115, 107, 101, 116>>,
    <<99, 104, 101, 99, 107, 111, 117, 116, 46, 99, 111, 117, 110, 116, 101, 114>>,
    <<99, 104, 101, 99, 107, 111, 117, 116, 46, 102, 114, 105, 100, 103, 101>>,
    <<99, 104, 101, 99, 107, 111, 117, 116, 46, 115, 104, 101, 108, 102>>,
    <<99, 104, 101, 99, 107, 111, 117, 116, 46, 115, 104, 111, 119, 99, 97, 115, 101>>,
    <<99, 104, 101, 101, 115, 101, 98, 117, 114, 103, 101, 114>>,
    <<99, 104, 105, 99, 107, 101, 110, 32, 97, 108, 102, 114, 101, 100, 111>>,
    <<99, 104, 105, 99, 107, 101, 110, 32, 98, 114, 101, 97, 115, 116>>,
    <<99, 104, 105, 99, 107, 101, 110, 32, 108, 101, 103>>,
    <<99, 104, 105, 99, 107, 101, 110, 32, 119, 105, 110, 103>>,
    <<99, 105, 108, 97, 110, 116, 114, 111>>,
    <<99, 108, 111, 116, 104, 105, 110, 103>>,
    <<99, 108, 111, 116, 104, 105, 110, 103, 32, 115, 104, 111, 119, 99, 97, 115, 101>>,
    <<99, 108, 111, 116, 104, 105, 110, 103, 46, 99, 108, 111, 116, 104, 105, 110, 103, 32, 115, 104, 111, 119, 99, 97, 115, 101>>,
    <<99, 111, 97, 116>>,
    <<99, 111, 100>>,
    <<99, 111, 102, 102, 101, 101, 32, 109, 97, 107, 101, 114>>,
    <<99, 111, 110, 100, 101, 110, 115, 101, 100, 32, 109, 105, 108, 107>>,
    <<99, 111, 110, 100, 105, 116, 105, 111, 110, 101, 114>>,
    <<99, 111, 111, 107, 98, 111, 111, 107>>,
    <<99, 111, 114, 110, 101, 100, 32, 98, 101, 101, 102>>,
    <<99, 111, 116, 116, 97, 103, 101, 32, 112, 105, 101>>,
    <<99, 111, 116, 116, 111, 110, 32, 98, 97, 108, 108, 115>>,
    <<99, 111, 117, 110, 116, 101, 114>>,
    <<99, 117, 109, 105, 110, 32, 112, 111, 119, 100, 101, 114>>,
    <<100, 97, 114, 107, 32, 99, 104, 111, 99, 111, 108, 97, 116, 101>>,
    <<100, 101, 104, 117, 109, 105, 100, 105, 102, 105, 101, 114>>,
    <<100, 101, 110, 116, 97, 108, 32, 102, 108, 111, 115, 115>>,
    <<100, 101, 111, 100, 111, 114, 97, 110, 116>>,
    <<100, 101, 116, 101, 114, 103, 101, 110, 116>>,
    <<100, 111, 110, 97, 116, 105, 111, 110, 32, 98, 111, 120>>,
    <<101, 103, 103>>,
    <<101, 114, 97, 115, 101, 114>>,
    <<102, 108, 111, 117, 114>>,
    <<102, 111, 108, 100, 101, 114>>,
    <<102, 111, 117, 110, 116, 97, 105, 110, 32, 112, 101, 110>>,
    <<102, 114, 105, 100, 103, 101>>,
    <<102, 114, 105, 101, 100, 32, 99, 104, 105, 99, 107, 101, 110>>,
    <<102, 114, 117, 105, 116, 32, 98, 97, 115, 107, 101, 116>>,
    <<102, 114, 117, 105, 116, 115>>,
    <<102, 114, 117, 105, 116, 115, 32, 102, 114, 105, 100, 103, 101>>,
    <<102, 114, 117, 105, 116, 115, 46, 102, 114, 117, 105, 116, 32, 98, 97, 115, 107, 101, 116>>,
    <<102, 114, 117, 105, 116, 115, 46, 102, 114, 117, 105, 116, 115, 32, 102, 114, 105, 100, 103, 101>>,
    <<102, 114, 117, 105, 116, 115, 46, 121, 101, 108, 108, 111, 119, 32, 98, 97, 115, 107, 101, 116>>,
    <<103, 114, 101, 101, 110, 32, 97, 112, 112, 108, 101>>,
    <<103, 114, 101, 101, 110, 32, 98, 101, 108, 108, 32, 112, 101, 112, 112, 101, 114>>,
    <<103, 114, 101, 101, 110, 32, 102, 114, 117, 105, 116, 32, 98, 97, 115, 107, 101, 116>>,
    <<103, 114, 101, 101, 110, 32, 104, 111, 116, 32, 112, 101, 112, 112, 101, 114>>,
    <<103, 114, 101, 101, 110, 32, 118, 101, 103, 32, 98, 97, 115, 107, 101, 116>>,
    <<104, 97, 110, 100, 32, 115, 97, 110, 105, 116, 105, 115, 101, 114>>,
    <<104, 97, 110, 100, 32, 115, 97, 110, 116, 105, 115, 101, 114>>,
    <<104, 97, 114, 100, 119, 97, 114, 101>>,
    <<104, 97, 114, 100, 119, 97, 114, 101, 32, 115, 104, 101, 108, 102>>,
    <<104, 97, 114, 100, 119, 97, 114, 101, 46, 104, 97, 114, 100, 119, 97, 114, 101, 32, 115, 104, 101, 108, 102>>,
    <<104, 105, 103, 104, 108, 105, 103, 104, 116, 101, 114>>,
    <<104, 111, 110, 101, 121>>,
    <<104, 111, 111, 100, 105, 101>>,
    <<104, 121, 103, 105, 101, 110, 101>>,
    <<104, 121, 103, 105, 101, 110, 101, 32, 115, 104, 101, 108, 102>>,
    <<104, 121, 103, 105, 101, 110, 101, 32, 115, 104, 111, 119, 99, 97, 115, 101>>,
    <<104, 121, 103, 105, 101, 110, 101, 46, 104, 121, 103, 105, 101, 110, 101, 32, 115, 104, 101, 108, 102>>,
    <<104, 121, 103, 105, 101, 110, 101, 46, 104, 121, 103, 105, 101, 110, 101, 32, 115, 104, 111, 119, 99, 97, 115, 101>>,
    <<104, 121, 103, 105, 101, 110, 101, 46, 105, 110, 103, 114, 101, 100, 105, 101, 110, 116, 115, 32, 115, 104, 111, 119, 99, 97, 115, 101>>,
    <<105, 110, 103, 114, 101, 100, 105, 101, 110, 116, 115>>,
    <<105, 110, 103, 114, 101, 100, 105, 101, 110, 116, 115, 32, 102, 114, 105, 100, 103, 101>>,
    <<105, 110, 103, 114, 101, 100, 105, 101, 110, 116, 115, 32, 115, 104, 101, 108, 102>>,
    <<105, 110, 103, 114, 101, 100, 105, 101, 110, 116, 115, 32, 115, 104, 111, 119, 99, 97, 115, 101>>,
    <<105, 110, 103, 114, 101, 100, 105, 101, 110, 116, 115, 46, 105, 110, 103, 114, 101, 100, 105, 101, 110, 116, 115, 32, 102, 114, 105, 100, 103, 101>>,
    <<105, 110, 103, 114, 101, 100, 105, 101, 110, 116, 115, 46, 105, 110, 103, 114, 101, 100, 105, 101, 110, 116, 115, 32, 115, 104, 101, 108, 102>>,
    <<105, 110, 103, 114, 101, 100, 105, 101, 110, 116, 115, 46, 105, 110, 103, 114, 101, 100, 105, 101, 110, 116, 115, 32, 115, 104, 111, 119, 99, 97, 115, 101>>,
    <<105, 110, 103, 114, 101, 100, 105, 116, 101, 110, 116, 115, 32, 115, 104, 111, 119, 99, 97, 115, 101>>,
    <<105, 116, 101, 109, 115>>,
    <<106, 97, 99, 107, 101, 116>>,
    <<106, 101, 97, 110, 115>>,
    <<107, 101, 116, 116, 108, 101>>,
    <<107, 101, 121, 98, 111, 97, 114, 100>>,
    <<107, 110, 105, 102, 101>>,
    <<108, 101, 116, 116, 117, 99, 101>>,
    <<108, 111, 116, 105, 111, 110>>,
    <<109, 97, 110, 103, 111>>,
    <<109, 97, 112, 108, 101, 32, 115, 121, 114, 117, 112>>,
    <<109, 101, 97, 116, 32, 115, 104, 97, 119, 97, 114, 109, 97>>,
    <<109, 101, 97, 116, 115>>,
    <<109, 101, 97, 116, 115, 32, 102, 114, 105, 100, 103, 101>>,
    <<109, 101, 97, 116, 115, 32, 115, 104, 111, 119, 99, 97, 115, 101>>,
    <<109, 101, 97, 116, 115, 46, 109, 101, 97, 116, 115, 32, 102, 114, 105, 100, 103, 101>>,
    <<109, 101, 97, 116, 115, 46, 109, 101, 97, 116, 115, 32, 115, 104, 111, 119, 99, 97, 115, 101>>,
    <<109, 105, 99, 114, 111, 119, 97, 118, 101>>,
    <<109, 105, 108, 107>>,
    <<109, 105, 108, 107, 32, 99, 104, 111, 99, 111, 108, 97, 116, 101>>,
    <<109, 111, 110, 105, 116, 111, 114>>,
    <<110, 111, 116, 101, 98, 111, 111, 107>>,
    <<111, 108, 105, 118, 101, 32, 111, 105, 108>>,
    <<111, 114, 97, 110, 103, 101, 32, 98, 97, 115, 107, 101, 116>>,
    <<111, 114, 97, 110, 103, 101, 32, 98, 101, 108, 108, 32, 112, 101, 112, 112, 101, 114>>,
    <<111, 118, 101, 110>>,
    <<112, 97, 112, 101, 114>>,
    <<112, 97, 112, 101, 114, 32, 99, 108, 105, 112, 115>>,
    <<112, 97, 114, 115, 108, 101, 121>>,
    <<112, 97, 116, 105, 111, 32, 100, 111, 111, 114>>,
    <<112, 101, 97, 110, 117, 116, 32, 111, 105, 108>>,
    <<112, 101, 110>>,
    <<112, 101, 110, 99, 105, 108>>,
    <<112, 105, 110, 101, 97, 112, 112, 108, 101>>,
    <<112, 105, 110, 107, 32, 114, 97, 100, 105, 115, 104>>,
    <<112, 108, 97, 105, 110, 32, 100, 111, 111, 114>>,
    <<112, 108, 117, 109>>,
    <<112, 111, 114, 107, 32, 98, 97, 99, 111, 110>>,
    <<112, 111, 114, 107, 32, 99, 104, 111, 112>>,
    <<112, 117, 114, 112, 108, 101, 32, 112, 111, 116, 97, 116, 111>>,
    <<113, 32, 116, 105, 112, 115>>,
    <<114, 101, 100, 32, 97, 112, 112, 108, 101>>,
    <<114, 101, 100, 32, 98, 101, 108, 108, 32, 112, 101, 112, 112, 101, 114>>,
    <<114, 101, 100, 32, 102, 114, 117, 105, 116, 32, 98, 97, 115, 107, 101, 116>>,
    <<114, 101, 100, 32, 103, 114, 97, 112, 101, 115>>,
    <<114, 101, 100, 32, 104, 111, 116, 32, 112, 101, 112, 112, 101, 114>>,
    <<114, 101, 100, 32, 111, 110, 105, 111, 110>>,
    <<114, 101, 100, 32, 112, 111, 116, 97, 116, 111>>,
    <<114, 101, 100, 32, 114, 97, 100, 105, 115, 104>>,
    <<114, 101, 100, 32, 116, 117, 110, 97>>,
    <<114, 101, 100, 32, 118, 101, 103, 32, 98, 97, 115, 107, 101, 116>>,
    <<114, 101, 115, 116, 97, 117, 114, 97, 110, 116>>,
    <<114, 101, 115, 116, 97, 117, 114, 97, 110, 116, 32, 99, 104, 97, 105, 114>>,
    <<114, 101, 115, 116, 97, 117, 114, 97, 110, 116, 32, 116, 97, 98, 108, 101>>,
    <<114, 101, 115, 116, 97, 117, 114, 97, 110, 116, 46, 114, 101, 115, 116, 97, 117, 114, 97, 110, 116, 32, 116, 97, 98, 108, 101>>,
    <<115, 97, 108, 109, 111, 110>>,
    <<115, 97, 108, 116>>,
    <<115, 99, 97, 114, 102>>,
    <<115, 99, 105, 115, 115, 111, 114, 115>>,
    <<115, 99, 114, 101, 101, 110, 32, 100, 111, 111, 114>>,
    <<115, 101, 99, 117, 114, 105, 116, 121>>,
    <<115, 104, 97, 109, 112, 111, 111>>,
    <<115, 104, 101, 108, 102>>,
    <<115, 104, 101, 112, 104, 101, 114, 100, 115, 32, 112, 105, 101>>,
    <<115, 104, 101, 112, 104, 101, 114, 100, 115, 32, 112, 105, 101, 102, 114, 105, 101, 100, 32, 99, 104, 105, 99, 107, 101, 110>>,
    <<115, 104, 105, 114, 116>>,
    <<115, 104, 111, 112, 112, 105, 110, 103, 32, 108, 105, 115, 116>>,
    <<115, 104, 111, 114, 116, 115>>,
    <<115, 104, 111, 119, 99, 97, 115, 101>>,
    <<115, 104, 114, 105, 109, 112, 32, 112, 105, 122, 122, 97>>,
    <<115, 107, 105, 114, 116>>,
    <<115, 108, 105, 100, 105, 110, 103, 32, 103, 108, 97, 115, 115, 32, 100, 111, 111, 114>>,
    <<115, 108, 105, 100, 105, 110, 103, 32, 112, 97, 116, 105, 111, 32, 100, 111, 111, 114>>,
    <<115, 109, 97, 114, 116, 112, 104, 111, 110, 101>>,
    <<115, 109, 97, 114, 116, 119, 97, 116, 99, 104>>,
    <<115, 109, 97, 114, 116, 119, 97, 116, 99, 104, 119, 104, 105, 116, 101, 32, 99, 104, 111, 99, 111, 108, 97, 116, 101>>,
    <<115, 111, 99, 107, 115>>,
    <<115, 111, 102, 97>>,
    <<115, 112, 105, 110, 97, 99, 104>>,
    <<115, 112, 111, 110, 103, 101>>,
    <<115, 116, 97, 112, 108, 101, 114>>,
    <<115, 116, 97, 116, 105, 111, 110, 101, 114, 121>>,
    <<115, 116, 97, 116, 105, 111, 110, 101, 114, 121, 32, 115, 104, 101, 108, 102>>,
    <<115, 116, 97, 116, 105, 111, 110, 101, 114, 121, 46, 115, 116, 97, 116, 105, 111, 110, 101, 114, 121, 32, 115, 104, 101, 108, 102>>,
    <<115, 116, 111, 118, 101>>,
    <<115, 117, 103, 97, 114>>,
    <<115, 117, 105, 116>>,
    <<115, 119, 101, 97, 116, 101, 114>>,
    <<116, 45, 115, 104, 105, 114, 116>>,
    <<116, 97, 110, 100, 111, 111, 114, 105, 32, 99, 104, 105, 99, 107, 101, 110>>,
    <<116, 105, 112, 115, 32, 98, 111, 120>>,
    <<116, 105, 115, 115, 117, 101, 115>>,
    <<116, 111, 105, 108, 101, 116>>,
    <<116, 111, 109, 97, 116, 111>>,
    <<116, 111, 111, 116, 104, 98, 114, 117, 115, 104>>,
    <<116, 111, 111, 116, 104, 112, 97, 115, 116, 101>>,
    <<116, 117, 114, 107, 101, 121, 32, 98, 97, 99, 111, 110>>,
    <<118, 97, 99, 117, 117, 109, 32, 99, 108, 101, 97, 110, 101, 114>>,
    <<118, 101, 103, 32, 98, 97, 115, 107, 101, 116>>,
    <<118, 101, 103, 32, 102, 114, 105, 100, 103, 101>>,
    <<118, 101, 103, 101, 116, 97, 98, 108, 101>>,
    <<118, 101, 103, 101, 116, 97, 98, 108, 101, 32, 111, 105, 108>>,
    <<118, 101, 103, 101, 116, 97, 98, 108, 101, 115>>,
    <<118, 101, 103, 101, 116, 97, 98, 108, 101, 115, 46, 103, 114, 101, 101, 110, 32, 118, 101, 103, 32, 98, 97, 115, 107, 101, 116>>,
    <<118, 101, 103, 101, 116, 97, 98, 108, 101, 115, 46, 111, 114, 97, 110, 103, 101, 32, 98, 97, 115, 107, 101, 116>>,
    <<118, 101, 103, 101, 116, 97, 98, 108, 101, 115, 46, 114, 101, 100, 32, 118, 101, 103, 32, 98, 97, 115, 107, 101, 116>>,
    <<118, 101, 103, 101, 116, 97, 98, 108, 101, 115, 46, 118, 101, 103, 32, 98, 97, 115, 107, 101, 116>>,
    <<118, 101, 103, 101, 116, 97, 98, 108, 101, 115, 46, 118, 101, 103, 32, 102, 114, 105, 100, 103, 101>>,
    <<119, 97, 116, 101, 114>>,
    <<119, 104, 105, 116, 101, 32, 99, 104, 111, 99, 111, 108, 97, 116, 101>>,
    <<119, 104, 105, 116, 101, 32, 103, 114, 97, 112, 101, 115>>,
    <<119, 104, 105, 116, 101, 32, 111, 110, 105, 111, 110>>,
    <<119, 104, 105, 116, 101, 32, 116, 117, 110, 97>>,
    <<121, 101, 108, 108, 111, 119, 32, 97, 112, 112, 108, 101>>,
    <<121, 101, 108, 108, 111, 119, 32, 98, 97, 115, 107, 101, 116>>,
    <<121, 101, 108, 108, 111, 119, 32, 98, 101, 108, 108, 32, 112, 101, 112, 112, 101, 114>>,
    <<121, 101, 108, 108, 111, 119, 32, 111, 110, 105, 111, 110>>,
    <<121, 101, 108, 108, 111, 119, 32, 112, 111, 116, 97, 116, 111>>
  >>

CodePoints ==
  Dict(Strings, StringsCodePoints)
(***************************************************************************)
(* Bounds of the model.                                                    *)
(***************************************************************************)
\* seeds of the random streams range over 0..MaxSeed
MaxSeed ==
  1

\* RandomWalk(max_attempts=...): ceiling of the attempt counter
MaxAttempts ==
  12

\* RandomWalk(size=(5, 5))
GridRows ==
  5

GridCols ==
  5

(***************************************************************************)
(* Generic helpers.                                                        *)
(***************************************************************************)
\* e, with v evaluated first: keeps the evaluation of long recursions shallow
Strict(v, e) ==
  IF v = v THEN e ELSE e

Range(x) ==
  {x[k] : k \in DOMAIN x}

InSeq(e, x) ==
  \E k \in DOMAIN x : x[k] = e

\* x[:n]
Prefix(x, n) ==
  SubSeq(x, 1, IF n < Len(x) THEN n ELSE Len(x))

(***************************************************************************)
(* numpy.random.RandomState, abstracted to a linear congruential stream.   *)
(***************************************************************************)
RngNext(s) ==
  (75 * s + 74) % 65537

\* a uniform draw in 0..n-1; the stream advances
Draw(s, n) ==
  [v |-> RngNext(s) % n, s |-> RngNext(s)]

\* rng.randint(low, high): a draw in low..high-1
Randint(s, low, high) ==
  [v |-> low + Draw(s, high - low).v, s |-> Draw(s, high - low).s]

\* x[i], x[j] = x[j], x[i] for j <= i
Swap(x, i, j) ==
  IF i = j THEN x
  ELSE SubSeq(x, 1, j - 1) \o <<x[i]>> \o SubSeq(x, j + 1, i - 1) \o <<x[j]>> \o SubSeq(x, i + 1, Len(x))

\* rng.shuffle(x), positions hi down to lo: `for i in reversed(range(1, n))`
\* swaps x[i] with x[j], j drawn in 0..i; the loop is halved to keep its
\* evaluation shallow
RECURSIVE ShuffleRange(_, _, _, _)
ShuffleRange(x, hi, lo, s) ==
  IF hi < lo THEN [seq |-> x, s |-> s]
  ELSE IF hi = lo THEN LET d == Draw(s, hi)
                       IN  [seq |-> Swap(x, hi, d.v + 1), s |-> d.s]
  ELSE LET mid   == (hi + lo) \div 2
           upper == ShuffleRange(x, hi, mid + 1, s)
       IN  Strict(upper, ShuffleRange(upper.seq, mid, lo, upper.s))

\* rng.shuffle(x): Fisher-Yates from the last position down
Shuffle(x, s) ==
  ShuffleRange(x, Len(x), 2, s)

(***************************************************************************)
(* Placement graphs.  nodes is the insertion-ordered list of occupied grid *)
(* nodes, edges a set of two-element sets of grid positions; ok = FALSE is *)
(* the value None.                                                         *)
(***************************************************************************)
NoGraph ==
  [ok |-> FALSE, nodes |-> <<>>, edges |-> {}]

\* nx.OrderedGraph() with the start node added (place_rooms)
StartGraph(start, room) ==
  [ok |-> TRUE, nodes |-> <<[pos |-> start, name |-> room]>>, edges |-> {}]

Positions(g) ==
  {g.nodes[k].pos : k \in DOMAIN g.nodes}

InGraph(g, p) ==
  p \in Positions(g)

\* G.nodes[p]["name"]
NameAt(g, p) ==
  LET k == CHOOSE k \in DOMAIN g.nodes : g.nodes[k].pos = p
  IN  g.nodes[k].name

\* new_G.add_node(node_, id="r_{}".format(len(new_G)), name=neighbor)
AddNode(g, p, name) ==
  [g EXCEPT !.nodes = Append(@, [pos |-> p, name |-> name])]

\* new_G.add_edge(node, node_, ...)
AddEdge(g, p, q) ==
  [g EXCEPT !.edges = @ \cup {{p, q}}]

\* list(self.grid): nx.grid_2d_graph(rows, cols) in row-major order
GridNodes ==
  [k \in 1..(GridRows * GridCols) |-> <<(k - 1) \div GridCols, (k - 1) % GridCols>>]

\* list(self.grid[node]): the grid neighbours of a node, in adjacency order
GridAdj(p) ==
  SelectSeq(<< <<p[1] - 1, p[2]>>, <<p[1] + 1, p[2]>>, <<p[1], p[2] - 1>>, <<p[1], p[2] + 1>> >>,
            LAMBDA q : q[1] \in 0..(GridRows - 1) /\ q[2] \in 0..(GridCols - 1))

VARIABLES
  pc,              \* position in make
  settings,        \* the settings read so far
  rngs,            \* the random streams: map, objects, quest, recipe
  rooms_to_place,  \* the room groups handed to place_rooms
  walk,            \* RandomWalk: start-node loop, group loop, attempt counter, call stack
  G,               \* the graph returned by make_graph_world
  M,               \* the GameMaker: entities in creation order, paths, player
  R,               \* make's locals: ingredients, distractors, start room, ...
  quests,          \* M.quests
  quests_rerun,    \* the quests of a second run of make on the same seeds and settings
  walkthrough,     \* the emitted list of commands
  play,            \* the replay of the walkthrough
  err              \* the exception make raised, "" if none

vars ==
  <<pc, settings, rngs, rooms_to_place, walk, G, M, R, quests, quests_rerun, walkthrough, play, err>>

\* what the layout search leaves alone
world ==
  <<M, R, quests, quests_rerun, walkthrough, play, err>>

(***************************************************************************)
(* RandomWalk.place_rooms and RandomWalk._walk as a call-stack machine.    *)
(* A frame is one activation of _walk(G, node, remaining):                 *)
(*   at = "enter"   before the first statement                             *)
(*   at = "loop"    at the head of `for node_ in nodes`, i the next index  *)
(*   at = "names"   at the head of `for neighbor in neighbors`, j the next *)
(*   at = "called"  waiting for the recursive call it made                 *)
(*   at = "return"  returning the value ret                                *)
(* walk.calls counts the calls of _walk made for the current group.        *)
(***************************************************************************)
Frame(g, node, remaining) ==
  [G |-> g, node |-> node, remaining |-> remaining, at |-> "enter",
   nodes |-> <<>>, i |-> 1, node_ |-> <<>>, neighbors |-> <<>>, j |-> 1,
   inner |-> FALSE, ret |-> NoGraph]

WalkInit ==
  [at |-> "begin", starts |-> <<>>, si |-> 0, start |-> <<>>, gi |-> 0,
   nb_attempts |-> 0, stack |-> <<>>, G |-> NoGraph, calls |-> 0]

Top ==
  walk.stack[Len(walk.stack)]

SetTop(f) ==
  [walk.stack EXCEPT ![Len(walk.stack)] = f]

\* place_rooms: nodes = list(self.grid); self.rng.shuffle(nodes)
PlaceRoomsBegin ==
  /\ pc = "layout"
  /\ walk.at = "begin"
  /\ LET sh == Shuffle(GridNodes, rngs.map)
     IN  /\ walk' = [walk EXCEPT !.at = "start", !.starts = sh.seq, !.si = 0]
         /\ rngs' = [rngs EXCEPT !.map = sh.s]
  /\ UNCHANGED <<pc, settings, rooms_to_place, G, world>>

\* place_rooms: `for start in nodes:` creates the one-node graph; when the
\* start nodes are exhausted place_rooms returns None
PlaceRoomsNextStart ==
  /\ pc = "layout"
  /\ walk.at = "start"
  /\ IF walk.si >= Len(walk.starts)
       THEN walk' = [walk EXCEPT !.at = "done", !.G = NoGraph]
       ELSE LET start == walk.starts[walk.si + 1]
            IN  walk' = [walk EXCEPT !.at = "group", !.si = @ + 1, !.start = start, !.gi = 0,
                                     !.G = StartGraph(start, rooms_to_place[1][1])]
  /\ UNCHANGED <<pc, settings, rngs, rooms_to_place, G, world>>

\* the groups are searched one after the other on one attempt counter
PlaceRoomsNextGroupNoReset ==
  /\ pc = "layout"
  /\ walk.at = "group"
  /\ IF walk.gi >= Len(rooms_to_place)
       THEN walk' = [walk EXCEPT !.at = "done"]
       ELSE LET group == rooms_to_place[walk.gi + 1]
                room  == rooms_to_place[1][1]
            IN  walk' = [walk EXCEPT !.at = "walk", !.gi = @ + 1,
                                     !.calls = 1,
                                     !.stack = <<Frame(walk.G, walk.start, Range(group) \ {room})>>]
  /\ UNCHANGED <<pc, settings, rngs, rooms_to_place, G, world>>

\* place_rooms: `for group in rooms:` resets the counter and calls _walk;
\* after the last group the graph is returned
PlaceRoomsNextGroup ==
  /\ pc = "layout"
  /\ walk.at = "group"
  /\ IF walk.gi >= Len(rooms_to_place)
       THEN walk' = [walk EXCEPT !.at = "done"]
       ELSE LET group == rooms_to_place[walk.gi + 1]
                room  == rooms_to_place[1][1]
            IN  walk' = [walk EXCEPT !.at = "walk", !.gi = @ + 1, !.nb_attempts = 0,
                                     !.calls = 1,
                                     !.stack = <<Frame(walk.G, walk.start, Range(group) \ {room})>>]
  /\ UNCHANGED <<pc, settings, rngs, rooms_to_place, G, world>>

\* the attempts are never found to exceed the ceiling
CeilingNever(nb) ==
  FALSE

\* self.nb_attempts > self.max_attempts
CeilingExceeded(nb) ==
  nb > MaxAttempts

\* _walk: the base case, the attempt counter and the shuffle of the grid neighbours
WalkEnter ==
  /\ pc = "layout"
  /\ walk.at = "walk"
  /\ Top.at = "enter"
  /\ IF Top.remaining = {}
       THEN /\ walk' = [walk EXCEPT !.stack = SetTop([Top EXCEPT !.at = "return", !.ret = Top.G])]
            /\ UNCHANGED rngs
       ELSE IF CeilingExceeded(walk.nb_attempts + 1)
         THEN /\ walk' = [walk EXCEPT !.nb_attempts = @ + 1,
                                      !.stack = SetTop([Top EXCEPT !.at = "return", !.ret = NoGraph])]
              /\ UNCHANGED rngs
         ELSE LET sh == Shuffle(GridAdj(Top.node), rngs.map)
              IN  /\ walk' = [walk EXCEPT !.nb_attempts = @ + 1,
                                          !.stack = SetTop([Top EXCEPT !.at = "loop", !.nodes = sh.seq, !.i = 1])]
                  /\ rngs' = [rngs EXCEPT !.map = sh.s]
  /\ UNCHANGED <<pc, settings, rooms_to_place, G, world>>

\* without the copy the additions are made to the graph of the caller
SharesGraph(frame, new_G) ==
  [frame EXCEPT !.G = new_G]

\* new_G = G.copy(): the additions go to the copy, the activation keeps its G
KeepsGraph(frame, new_G) ==
  frame

\* the test left out: any occupied node may be linked
MayLinkAny(g, name, p) ==
  TRUE

\* may an edge be walked from a room named `name` onto the occupied node p of g
MayLink(g, name, p) ==
  InSeq(NameAt(g, p), NEIGHBORS[name])

\* [n for n in neighbors if n in remaining]
Compatible(name, remaining) ==
  SelectSeq(NEIGHBORS[name], LAMBDA n : n \in remaining)

\* _walk: one iteration of `for node_ in nodes`
WalkLoop ==
  /\ pc = "layout"
  /\ walk.at = "walk"
  /\ Top.at = "loop"
  /\ IF Top.i > Len(Top.nodes)
       THEN /\ walk' = [walk EXCEPT !.stack = SetTop([Top EXCEPT !.at = "return", !.ret = NoGraph])]
            /\ UNCHANGED rngs
       ELSE LET node_ == Top.nodes[Top.i]
                name  == NameAt(Top.G, Top.node)
            IN  IF InGraph(Top.G, node_)
                  THEN /\ UNCHANGED rngs
                       /\ IF ~MayLink(Top.G, name, node_)
                            THEN walk' = [walk EXCEPT !.stack = SetTop([Top EXCEPT !.i = @ + 1])]
                            ELSE LET new_G == AddEdge(Top.G, Top.node, node_)
                                 IN  walk' = [walk EXCEPT
                                        !.calls = @ + 1,
                                        !.stack = Append(SetTop(KeepsGraph([Top EXCEPT !.at = "called", !.i = @ + 1,
                                                                                       !.node_ = node_, !.inner = FALSE],
                                                                           new_G)),
                                                         Frame(new_G, node_, Top.remaining))]
                  ELSE LET sh == Shuffle(Compatible(name, Top.remaining), rngs.map)
                       IN  /\ walk' = [walk EXCEPT !.stack = SetTop([Top EXCEPT !.at = "names", !.i = @ + 1,
                                                     !.node_ = node_, !.neighbors = sh.seq, !.j = 1])]
                           /\ rngs' = [rngs EXCEPT !.map = sh.s]
  /\ UNCHANGED <<pc, settings, rooms_to_place, G, world>>

\* _walk: one iteration of `for neighbor in neighbors`: occupy node_ speculatively
WalkNames ==
  /\ pc = "layout"
  /\ walk.at = "walk"
  /\ Top.at = "names"
  /\ IF Top.j > Len(Top.neighbors)
       THEN walk' = [walk EXCEPT !.stack = SetTop([Top EXCEPT !.at = "loop"])]
       ELSE LET neighbor == Top.neighbors[Top.j]
                new_G    == AddEdge(AddNode(Top.G, Top.node_, neighbor), Top.node, Top.node_)
            IN  walk' = [walk EXCEPT
                   !.calls = @ + 1,
                   !.stack = Append(SetTop(KeepsGraph([Top EXCEPT !.at = "called", !.j = @ + 1, !.inner = TRUE],
                                                      new_G)),
                                    Frame(new_G, Top.node_, Top.remaining \ {neighbor}))]
  /\ UNCHANGED <<pc, settings, rngs, rooms_to_place, G, world>>

\* a call of _walk returns: `if new_G: return new_G`, else the caller goes on
\* with its loop; the outermost call returns to place_rooms (`if not G: break`)
WalkReturn ==
  /\ pc = "layout"
  /\ walk.at = "walk"
  /\ Top.at = "return"
  /\ LET r    == Top.ret
         rest == SubSeq(walk.stack, 1, Len(walk.stack) - 1)
     IN  IF rest = <<>>
           THEN walk' = [walk EXCEPT !.stack = <<>>, !.G = r,
                                     !.at = IF r.ok THEN "group" ELSE "start"]
           ELSE LET caller == rest[Len(rest)]
                    next   == IF r.ok THEN [caller EXCEPT !.at = "return", !.ret = r]
                              ELSE [caller EXCEPT !.at = IF caller.inner THEN "names" ELSE "loop"]
                IN  walk' = [walk EXCEPT !.stack = [rest EXCEPT ![Len(rest)] = next]]
  /\ UNCHANGED <<pc, settings, rngs, rooms_to_place, G, world>>

NextWalk ==
  \/ PlaceRoomsBegin
  \/ PlaceRoomsNextStart
  \/ PlaceRoomsNextGroup
  \/ WalkEnter
  \/ WalkLoop
  \/ WalkNames
  \/ WalkReturn


(***************************************************************************)
(* The GameMaker (textworld.generator.maker), as far as make uses it.      *)
(* An entity is [type, name, props, parent, pos]; parent is the index of   *)
(* the holder in M.entities, 0 for none, Inventory for the player's        *)
(* inventory; pos is the grid position of a room.                          *)
(***************************************************************************)
Inventory ==
  -1

MinOf(S) ==
  CHOOSE k \in S : \A l \in S : k <= l

MaxOf(S) ==
  CHOOSE k \in S : \A l \in S : k >= l

EmptyWorld ==
  [entities |-> <<>>, paths |-> {}, player |-> 0]

\* M.new(type=..., name=...): the new entity is the last one
New(m, type, name) ==
  [m EXCEPT !.entities = Append(@, [type |-> type, name |-> name, props |-> {},
                                     parent |-> 0, pos |-> <<>>])]

Last(m) ==
  Len(m.entities)

\* entity.add_property(p) for every p of a list
AddProps(m, e, props) ==
  [m EXCEPT !.entities[e].props = @ \cup props]

\* entity.remove_property(p)
RemoveProp(m, e, p) ==
  [m EXCEPT !.entities[e].props = @ \ {p}]

HasProp(m, e, p) ==
  p \in m.entities[e].props

\* holder.add(entity)
AddTo(m, holder, e) ==
  [m EXCEPT !.entities[e].parent = holder]

\* M.find_by_name(name): the first entity of that name, 0 for None
FindByName(m, name) ==
  LET S == {k \in DOMAIN m.entities : m.entities[k].name = name}
  IN  IF S = {} THEN 0 ELSE MinOf(S)

\* M.findall(type=t)
FindAll(m, t) ==
  {k \in DOMAIN m.entities : m.entities[k].type = t}

\* M.rooms, in creation order
RoomsOf(m) ==
  SelectSeq([k \in DOMAIN m.entities |-> k], LAMBDA k : m.entities[k].type = "r")

\* location.split(".")[-1], character by character
HolderChars(location) ==
  LET AfterLastDot(c) ==
        LET dots == {k \in DOMAIN c : c[k] = 46}
        IN  IF dots = {} THEN c ELSE SubSeq(c, MaxOf(dots) + 1, Len(c))
  IN  AfterLastDot(CodePoints[location])

\* the locations of the catalogs
Locations ==
  UNION ({Range(FOODS[f].locations) : f \in DOMAIN FOODS}
         \cup {Range(ENTITIES[e].locations) : e \in DOMAIN ENTITIES})

\* holder_name = location.split(".")[-1], for every location of the catalogs
HolderName ==
  [location \in Locations |-> CHOOSE name \in DOMAIN CodePoints :
                                 CodePoints[name] = HolderChars(location)] @@ EmptyDict

\* M.import_graph(G): a room per node, in node order, and a path per edge
ImportGraph(m, g) ==
  LET base == Len(m.entities)
      idx(p) == base + (CHOOSE k \in DOMAIN g.nodes : g.nodes[k].pos = p)
      room(k) == [type |-> "r", name |-> g.nodes[k].name, props |-> {}, parent |-> 0,
                  pos |-> g.nodes[k].pos]
  IN  [m EXCEPT !.entities = @ \o [k \in DOMAIN g.nodes |-> room(k)],
                !.paths = {[rooms |-> {idx(p) : p \in e}, door |-> 0] : e \in g.edges}]

\* M.find_path(room1, room2): the set holding the path between the two rooms, if any
FindPath(m, room1, room2) ==
  {p \in m.paths : p.rooms = {room1, room2}}

\* M.new_door(path, name) and door.add_property("closed")
NewDoor(m, path, name) ==
  LET m1 == AddProps(New(m, "d", name), Len(m.entities) + 1, {"closed"})
  IN  [m1 EXCEPT !.paths = (@ \ {path}) \cup {[path EXCEPT !.door = Len(m.entities) + 1]}]

\* pick_name(M, names, rng): the first shuffled name no entity carries;
\* name = "" stands for the failed `assert False`
PickName(m, names, s) ==
  LET sh   == Shuffle(names, s)
      free == {k \in DOMAIN sh.seq : FindByName(m, sh.seq[k]) = 0}
  IN  [name |-> IF free = {} THEN "" ELSE sh.seq[MinOf(free)], ok |-> free # {}, s |-> sh.s]

\* pick_location(M, locations, rng): the first shuffled location whose holder exists, 0 for None
PickLocation(m, locations, s) ==
  LET First(sh, holders) ==
        LET found == {k \in DOMAIN holders : holders[k] # 0}
        IN  [holder |-> IF found = {} THEN 0 ELSE holders[MinOf(found)], s |-> sh.s]
      Find(sh) ==
        First(sh, [k \in DOMAIN sh.seq |-> FindByName(m, HolderName[sh.seq[k]])])
  IN  Find(Shuffle(locations, s))

\* place_entity(M, name, rng): e = 0 when there is nowhere to place it
PlaceEntity(m, name, s) ==
  LET Place(infos, loc) ==
        LET m1 == New(m, infos.type, name)
            e  == Last(m1)
        IN  IF loc.holder = 0 THEN [M |-> m, s |-> loc.s, e |-> 0]
            ELSE [M |-> AddTo(AddProps(m1, e, Range(infos.properties)), loc.holder, e),
                  s |-> loc.s, e |-> e]
      Pick(infos) ==
        Place(infos, PickLocation(m, infos.locations, s))
  IN  Pick(ENTITIES[name])

\* place_entities(M, names, rng)
RECURSIVE PlaceEntities(_, _, _)
PlaceEntities(m, names, s) ==
  IF names = <<>> THEN [M |-> m, s |-> s]
  ELSE LET Rest(r) == Strict(r, PlaceEntities(r.M, Tail(names), r.s))
       IN  Rest(PlaceEntity(m, Head(names), s))

\* place_random_furnitures(M, nb_furnitures, rng)
PlaceRandomFurnitures(m, nb_furnitures, s) ==
  LET furnitures == SelectSeq(ENTITIES_keys, LAMBDA k : ENTITIES[k].type \notin {"o", "f"})
      missing    == SelectSeq(furnitures, LAMBDA k : FindByName(m, k) = 0)
      Place(sh)  == PlaceEntities(m, Prefix(sh.seq, nb_furnitures), sh.s)
  IN  Place(Shuffle(missing, s))

\* place_food(M, name, rng, place_it): e = 0 for None
PlaceFood(m, name, s, place_it) ==
  LET Place(infos, loc) ==
        LET m1 == AddProps(New(m, "f", name), Len(m.entities) + 1, Range(infos.properties))
            e  == Last(m1)
        IN  IF loc.holder = 0 /\ place_it THEN [M |-> m, s |-> loc.s, e |-> 0]
            ELSE [M |-> IF place_it THEN AddTo(m1, loc.holder, e) ELSE m1, s |-> loc.s, e |-> e]
      Pick(infos) ==
        Place(infos, PickLocation(m, infos.locations, s))
  IN  Pick(FOODS[name])

\* place_random_foods: `for food in foods` over foods[lo..hi], stopping once
\* nb_foods are placed; entities lists the placed foods.  The loop is halved
\* to keep its evaluation shallow
RECURSIVE PlaceFoodsUntil(_, _, _, _, _, _, _)
PlaceFoodsUntil(m, foods, lo, hi, nb_foods, s, entities) ==
  IF lo > hi \/ Len(entities) >= nb_foods THEN [M |-> m, s |-> s, entities |-> entities]
  ELSE IF lo = hi
    THEN LET Placed(r) ==
               [M |-> r.M, s |-> r.s, entities |-> IF r.e = 0 THEN entities ELSE Append(entities, r.e)]
         IN  Placed(PlaceFood(m, foods[lo], s, TRUE))
  ELSE LET mid   == (lo + hi) \div 2
           first == PlaceFoodsUntil(m, foods, lo, mid, nb_foods, s, entities)
       IN  Strict(first, PlaceFoodsUntil(first.M, foods, mid + 1, hi, nb_foods, first.s, first.entities))

\* the foods of the world are not looked at: every allowed food may be placed
PlaceRandomFoodsUnseen(m, nb_foods, s, allowed_foods) ==
  LET Place(sh) == PlaceFoodsUntil(m, sh.seq, 1, Len(sh.seq), nb_foods, sh.s, <<>>)
  IN  Place(Shuffle(allowed_foods, s))

\* place_random_foods(M, nb_foods, rng, allowed_foods)
PlaceRandomFoods(m, nb_foods, s, allowed_foods) ==
  LET seen      == {m.entities[k].name : k \in FindAll(m, "f")}
      foods     == SelectSeq(allowed_foods, LAMBDA name : name \notin seen)
      Place(sh) == PlaceFoodsUntil(m, sh.seq, 1, Len(sh.seq), nb_foods, sh.s, <<>>)
  IN  Place(Shuffle(foods, s))

(***************************************************************************)
(* make: the allowed foods and preparations of a data split.               *)
(***************************************************************************)
\* itertools.product(cookings, cuttings)
Product(a, b) ==
  [k \in 1..(Len(a) * Len(b)) |-> <<a[((k - 1) \div Len(b)) + 1], b[((k - 1) % Len(b)) + 1]>>]

\* get_food_preparations, for one food of FOODS
GetFoodPreparation(f) ==
  LET v        == FOODS[f]
      cookings == IF InSeq("cookable", v.properties)
                    THEN IF InSeq("needs_cooking", v.properties)
                           THEN <<"grilled", "fried", "roasted">>
                           ELSE <<"grilled", "fried", "roasted", "raw">>
                    ELSE <<"raw">>
      cuttings == IF InSeq("cuttable", v.properties)
                    THEN <<"uncut", "chopped", "sliced", "diced">>
                    ELSE <<"uncut">>
  IN  Product(cookings, cuttings)

\* get_food_preparations(foods) raises KeyError at `v = FOODS[f]`
GetFoodPreparationsRaises(foods) ==
  \E k \in DOMAIN foods : foods[k] \notin DOMAIN FOODS

GetFoodPreparations(foods) ==
  [f \in Range(foods) |-> GetFoodPreparation(f)]

\* d.update(e)
Update(d, e) ==
  [k \in DOMAIN d \cup DOMAIN e |-> IF k \in DOMAIN e THEN e[k] ELSE d[k]]

\* the training foods, in FOODS order: [f for f in FOODS if f in FOODS_SPLITS['train']]
TrainFoodsInOrder ==
  SelectSeq(FOODS_keys, LAMBDA f : InSeq(f, FOODS_SPLITS.train))

\* allowed_foods and allowed_food_preparations before the skill filters;
\* split is "none" when no split is selected
SplitTables(split) ==
  IF split = "train"
    THEN [foods |-> FOODS_SPLITS.train, preps |-> FOOD_PREPARATIONS_SPLITS.train]
  ELSE IF split \in {"valid", "test"}
    THEN [foods |-> FOODS_SPLITS[split] \o TrainFoodsInOrder,
          preps |-> Update(GetFoodPreparations(FOODS_SPLITS[split]), FOOD_PREPARATIONS_SPLITS[split])]
  ELSE [foods |-> FOODS_keys, preps |-> GetFoodPreparations(FOODS_keys)]

\* "uncut" not in preparation, "raw" not in preparation
Without(preparations, state) ==
  SelectSeq(preparations, LAMBDA p : p[1] # state /\ p[2] # state)

\* the cut skill leaves the preparations as they are
CutFilterNone(t) ==
  t

\* if settings.get("cut"): remove all "uncut" preparations
CutFilter(t) ==
  [t EXCEPT !.preps = [f \in DOMAIN t.preps |-> Without(t.preps[f], "uncut")]]

\* if settings.get("cook"): remove all "raw" preparations; a food left
\* without preparation is deleted from both tables
CookFilter(t) ==
  LET filtered == [f \in DOMAIN t.preps |-> Without(t.preps[f], "raw")]
      kept     == {f \in DOMAIN filtered : filtered[f] # <<>>}
  IN  [foods |-> SelectSeq(t.foods, LAMBDA f : f \notin DOMAIN filtered \/ f \in kept),
       preps |-> [f \in kept |-> filtered[f]]]

\* allowed_foods and allowed_food_preparations as make uses them
AllowedTables(split, cut, cook) ==
  LET Cook(t) == IF cook THEN CookFilter(t) ELSE t
      Cut(t)  == Cook(IF cut THEN CutFilter(t) ELSE t)
  IN  Cut(SplitTables(split))

(***************************************************************************)
(* Strings, character by character.                                        *)
(***************************************************************************)
\* a < b for strings (code point order), as sorted() compares names
RECURSIVE CharsLess(_, _)
CharsLess(a, b) ==
  IF b = <<>> THEN FALSE
  ELSE IF a = <<>> THEN TRUE
  ELSE IF Head(a) # Head(b) THEN Head(a) < Head(b)
  ELSE CharsLess(Tail(a), Tail(b))

NameLess(a, b) ==
  CharsLess(CodePoints[a], CodePoints[b])

\* sorted(foods, key=lambda f: f.name): stable insertion sort of entity indices
RECURSIVE InsertByName(_, _, _)
InsertByName(m, sorted, e) ==
  IF sorted = <<>> THEN <<e>>
  ELSE IF NameLess(m.entities[e].name, m.entities[Head(sorted)].name)
    THEN <<e>> \o sorted
    ELSE <<Head(sorted)>> \o InsertByName(m, Tail(sorted), e)

\* the foods in the order they were placed
SortByNone(m, foods) ==
  foods

RECURSIVE SortByName(_, _)
SortByName(m, foods) ==
  IF foods = <<>> THEN <<>>
  ELSE InsertByName(m, SortByName(m, SubSeq(foods, 1, Len(foods) - 1)), foods[Len(foods)])

\* s.startswith(p), s.endswith(p)
StartsWith(c, p) ==
  Len(p) <= Len(c) /\ SubSeq(c, 1, Len(p)) = p

EndsWith(c, p) ==
  Len(p) <= Len(c) /\ SubSeq(c, Len(c) - Len(p) + 1, Len(c)) = p

\* name.split(): the positions of the blanks, the first and the last word
Blanks(c) ==
  {k \in DOMAIN c : c[k] = 32}

FirstWord(c) ==
  IF Blanks(c) = {} THEN c ELSE SubSeq(c, 1, MinOf(Blanks(c)) - 1)

LastWord(c) ==
  IF Blanks(c) = {} THEN c ELSE SubSeq(c, MaxOf(Blanks(c)) + 1, Len(c))

(***************************************************************************)
(* make(settings, options), step by step.                                  *)
(***************************************************************************)
\* the settings after settings.get(key) returned v
With(key, v) ==
  (key :> v) @@ settings

\* a setting read before keeps its value
Reads(key, v) ==
  key \in DOMAIN settings => settings[key] = v

\* make raises: no instance is returned
Raise(e) ==
  /\ pc' = "error"
  /\ err' = e

RInit ==
  [kitchen |-> 0, cookbook |-> 0, knife |-> 0, start_room |-> 0, nb_ingredients |-> 0,
   ingredient_foods |-> <<>>, ingredients |-> <<>>, inventory_limit |-> 0,
   nb_distractors |-> 0, distractors |-> <<>>, walkthrough_set |-> FALSE]

\* nobody plays yet
PlayInit ==
  [k |-> 0, room |-> 0, opened |-> {}, held |-> {}, refused |-> {}]

\* make: rng_recipe = np.random.RandomState(settings["recipe_seed"]), which
\* raises ValueError on a negative seed (any other seed is read again at the
\* reshuffle); then the split tables are built; get_food_preparations raises
\* KeyError on a split food that FOODS does not hold
MakeTables ==
  /\ pc = "start"
  /\ \/ /\ Reads("recipe_seed", -1)
        /\ settings' = With("recipe_seed", -1)
        /\ Raise("ValueError: Seed must be between 0 and 2**32 - 1")
     \/ \E split \in {"none", "train", "valid", "test"} :
          /\ Reads("split", split)
          /\ settings' = With("split", split)
          /\ IF split \in {"valid", "test"} /\ GetFoodPreparationsRaises(FOODS_SPLITS[split])
               THEN Raise("KeyError: get_food_preparations")
               ELSE pc' = "rooms" /\ err' = err
  /\ UNCHANGED <<rngs, rooms_to_place, walk, G, M, R, quests, quests_rerun, walkthrough, play>>

\* a single room is never asked for: one room gets the groups of six
RoomsForSix(nb_rooms) ==
  IF nb_rooms = 10 THEN Prefix(ROOMS, 3) ELSE Prefix(ROOMS, 2)

\* make: rooms_to_place = ROOMS[:1], ROOMS[:2] or ROOMS[:3]
RoomsFor(nb_rooms) ==
  IF nb_rooms = 1 THEN Prefix(ROOMS, 1)
  ELSE IF nb_rooms = 6 THEN Prefix(ROOMS, 2)
  ELSE Prefix(ROOMS, 3)

\* options.nb_rooms in {1, 6, 10}
ValidNbRooms(nb_rooms) ==
  nb_rooms \in {1, 6, 10}

\* make: the GameMaker with the recipe and the meal, then the room count
MakeRooms ==
  /\ pc = "rooms"
  /\ \E go \in {1, 3, 6, 10} :
       /\ Reads("go", go)
       /\ settings' = With("go", go)
       /\ LET m1 == New(New(M, "RECIPE", ""), "meal", "items")
          IN  M' = AddProps(m1, Last(m1), {"edible"})
       /\ IF ValidNbRooms(go)
            THEN /\ rooms_to_place' = RoomsFor(go)
                 /\ pc' = "layout"
                 /\ err' = err
            ELSE /\ Raise("ValueError: Shopping games can only have {1, 6, 10} rooms.")
                 /\ UNCHANGED rooms_to_place
  /\ UNCHANGED <<rngs, walk, G, R, quests, quests_rerun, walkthrough, play>>

\* make: G = make_graph_world(rng_map, rooms_to_place, NEIGHBORS, size=(5, 5))
MakeGraphWorld ==
  /\ pc = "layout"
  /\ walk.at = "done"
  /\ G' = walk.G
  /\ pc' = "import_graph"
  /\ UNCHANGED <<settings, rngs, rooms_to_place, walk, M, R, quests, quests_rerun, walkthrough, play, err>>

\* make: rooms = M.import_graph(G); with G = None the GameMaker raises
MakeImportGraph ==
  /\ pc = "import_graph"
  /\ IF G.ok
       THEN /\ M' = ImportGraph(M, G)
            /\ pc' = "doors"
            /\ err' = err
       ELSE /\ Raise("AttributeError: import_graph(None)")
            /\ UNCHANGED M
  /\ UNCHANGED <<settings, rngs, rooms_to_place, walk, G, R, quests, quests_rerun, walkthrough, play>>

\* make: `for infos in DOORS:` from its k-th entry on
RECURSIVE AddDoors(_, _, _)
AddDoors(m, s, k) ==
  IF k > Len(DOORS) THEN [M |-> m, s |-> s, err |-> ""]
  ELSE LET infos == DOORS[k]
           room1 == FindByName(m, infos.path[1])
           room2 == FindByName(m, infos.path[2])
           paths == IF room1 = 0 \/ room2 = 0 THEN {} ELSE FindPath(m, room1, room2)
       IN  IF paths = {} THEN AddDoors(m, s, k + 1)
           ELSE LET path == CHOOSE p \in paths : TRUE
                    pick == PickName(m, infos.names, s)
                IN  IF path.door # 0
                      THEN [M |-> m, s |-> s, err |-> "AssertionError: path.door is None"]
                    ELSE IF ~pick.ok
                      THEN [M |-> m, s |-> pick.s, err |-> "AssertionError: pick_name"]
                    ELSE LET m1 == NewDoor(m, path, pick.name)
                         IN  Strict(m1, AddDoors(m1, pick.s, k + 1))

\* make: `for infos in DOORS:`
MakeDoors ==
  /\ pc = "doors"
  /\ \E r \in {AddDoors(M, rngs.objects, 1)} :
       /\ M' = r.M
       /\ rngs' = [rngs EXCEPT !.objects = r.s]
       /\ IF r.err = "" THEN pc' = "furniture" /\ err' = err ELSE Raise(r.err)
  /\ UNCHANGED <<settings, rooms_to_place, walk, G, R, quests, quests_rerun, walkthrough, play>>

\* make: the kitchen, the default and the random furniture, the shopping
\* list, the knife (`rng_objects.rand() > 0.5 or settings.get("cut")`) and
\* the start room
Furnish(m, streams, r, cut) ==
  LET rooms == RoomsOf(m)
      Start(cb, kn, start) ==
        [M    |-> [kn.M EXCEPT !.player = rooms[start.v + 1]],
         rngs |-> [streams EXCEPT !.objects = kn.s, !.map = start.s],
         R    |-> [r EXCEPT !.kitchen = FindByName(m, "checkout"), !.cookbook = cb.e,
                            !.knife = kn.e, !.start_room = rooms[start.v + 1]]]
      Knife(cb, coin) ==
        Start(cb,
              IF coin.v = 1 \/ cut THEN PlaceEntity(cb.M, "knife", coin.s)
              ELSE [M |-> cb.M, s |-> coin.s, e |-> 0],
              Draw(streams.map, Len(rooms)))
      Coin(cb) ==
        Knife(cb, Draw(cb.s, 2))
      List(p2) ==
        Coin(PlaceEntity(p2.M, "shopping list", p2.s))
      Random(p1, nb) ==
        List(PlaceRandomFurnitures(p1.M, nb.v, nb.s))
      Number(p1) ==
        Random(p1, Randint(p1.s, Len(rooms), Len(ENTITIES_keys) + 1))
  IN  Number(PlaceEntities(m, <<"basket", "counter", "fridge", "shelf", "showcase">>, streams.objects))

MakeFurniture ==
  /\ pc = "furniture"
  /\ \E cut \in BOOLEAN :
       /\ Reads("cut", cut)
       /\ settings' = With("cut", cut)
       /\ \E r \in {Furnish(M, rngs, R, cut)} :
            M' = r.M /\ rngs' = r.rngs /\ R' = r.R
  /\ pc' = "ingredients"
  /\ UNCHANGED <<rooms_to_place, walk, G, quests, quests_rerun, walkthrough, play, err>>

\* allowed_foods and allowed_food_preparations of the run, once split, cut and cook are read
Allowed(s) ==
  AllowedTables(s.split, s.cut, s.cook)

\* make: `for i, food in enumerate(ingredient_foods)`: one preparation per food,
\* drawn from its allowed list; allowed_food_preparations[food.name] raises
\* KeyError on a missing food and rng.randint(0, 0) raises ValueError
RECURSIVE ChoosePreparations(_, _, _, _, _)
ChoosePreparations(m, foods, preps, s, ingredients) ==
  IF foods = <<>> THEN [ingredients |-> ingredients, s |-> s, err |-> ""]
  ELSE LET name == m.entities[Head(foods)].name
       IN  IF name \notin DOMAIN preps
             THEN [ingredients |-> ingredients, s |-> s, err |-> "KeyError: allowed_food_preparations"]
           ELSE IF preps[name] = <<>>
             THEN [ingredients |-> ingredients, s |-> s, err |-> "ValueError: low >= high"]
           ELSE LET idx == Randint(s, 0, Len(preps[name]))
                    p   == preps[name][idx.v + 1]
                IN  ChoosePreparations(m, Tail(foods), preps, idx.s,
                                       Append(ingredients, [food |-> Head(foods), cooking |-> p[1],
                                                            cutting |-> p[2]]))

\* the lower bound of the assertion admits zero
ValidRecipeFromZero(nb_ingredients) ==
  nb_ingredients >= 0 /\ nb_ingredients <= 5

\* assert nb_ingredients > 0 and nb_ingredients <= 5
ValidRecipe(nb_ingredients) ==
  nb_ingredients > 0 /\ nb_ingredients <= 5

\* make: place_random_foods, sorted by name, then the preparation of each
Ingredients(m, streams, r, recipe, allowed) ==
  LET Chosen(placed, foods, chosen) ==
        [M    |-> placed.M,
         rngs |-> [streams EXCEPT !.quest = chosen.s],
         R    |-> [r EXCEPT !.nb_ingredients = recipe, !.ingredient_foods = foods,
                            !.ingredients = chosen.ingredients],
         err  |-> chosen.err]
      Choose(placed, foods) ==
        Chosen(placed, foods, ChoosePreparations(placed.M, foods, allowed.preps, placed.s, <<>>))
      Sort(placed) ==
        Choose(placed, SortByName(placed.M, placed.entities))
  IN  Sort(PlaceRandomFoods(m, recipe, streams.quest, allowed.foods))

\* make: the ingredients of the recipe and how each is to be processed
MakeIngredients ==
  /\ pc = "ingredients"
  /\ \E recipe \in 0..6 :
       /\ Reads("recipe", recipe)
       /\ IF ~ValidRecipe(recipe)
            THEN /\ Raise("AssertionError: recipe must have {1,2,3,4,5} ingredients.")
                 /\ settings' = With("recipe", recipe)
                 /\ UNCHANGED <<rngs, M, R>>
            ELSE \E cook \in BOOLEAN :
                   /\ Reads("cook", cook)
                   /\ settings' = ("cook" :> cook) @@ With("recipe", recipe)
                   /\ \E r \in {Ingredients(M, rngs, R, recipe, Allowed(settings'))} :
                        /\ M' = r.M /\ rngs' = r.rngs /\ R' = r.R
                        /\ IF r.err = "" THEN pc' = "distractors" /\ err' = err
                           ELSE Raise(r.err)
  /\ UNCHANGED <<rooms_to_place, walk, G, quests, quests_rerun, walkthrough, play>>

\* the limit leaves no room for the knife
InventoryLimitNoKnife(nb_ingredients, drop, cut) ==
  IF drop THEN nb_ingredients ELSE 10

\* make: inventory_limit
InventoryLimit(nb_ingredients, drop, cut) ==
  IF drop THEN (IF nb_ingredients = 1 /\ cut THEN nb_ingredients + 1 ELSE nb_ingredients)
  ELSE 10

\* _place_one_distractor(candidates, ingredient): the first shuffled candidate
\* that is absent is created in the holder of the ingredient; an existing
\* candidate in that holder ends the search
PlaceOneDistractor(m, candidates, ingredient, s) ==
  LET holder == m.entities[ingredient].parent
      Add(r) ==
        [M |-> AddTo(r.M, holder, r.e), s |-> r.s]
      Stop(sh, stops) ==
        IF stops = {} \/ FindByName(m, sh.seq[MinOf(stops)]) # 0 THEN [M |-> m, s |-> sh.s]
        ELSE Add(PlaceFood(m, sh.seq[MinOf(stops)], sh.s, FALSE))
      Search(sh) ==
        Stop(sh, {k \in DOMAIN sh.seq :
                    LET d == FindByName(m, sh.seq[k])
                    IN  d = 0 \/ m.entities[d].parent = holder})
  IN  Search(Shuffle(candidates, s))

\* same_prefix_list = [f for f in allowed_foods if f.startswith(prefix) if f != ingredient.name]
SamePrefixList(allowed_foods, name) ==
  SelectSeq(allowed_foods,
            LAMBDA f : StartsWith(CodePoints[f], FirstWord(CodePoints[name])) /\ f # name)

\* same_suffix_list = [f for f in allowed_foods if f.endswith(suffix) if f != ingredient.name]
SameSuffixList(allowed_foods, name) ==
  SelectSeq(allowed_foods,
            LAMBDA f : EndsWith(CodePoints[f], LastWord(CodePoints[name])) /\ f # name)

\* make: `for ingredient in ingredient_foods`: the lexical distractors
RECURSIVE PlaceLexicalDistractors(_, _, _, _)
PlaceLexicalDistractors(m, foods, allowed_foods, s) ==
  IF foods = <<>> THEN [M |-> m, s |-> s]
  ELSE LET ingredient == Head(foods)
           Rest(r2) ==
             Strict(r2, PlaceLexicalDistractors(r2.M, Tail(foods), allowed_foods, r2.s))
           Suffix(same_suffix_list, r1) ==
             Rest(IF same_suffix_list # <<>>
                    THEN PlaceOneDistractor(r1.M, same_suffix_list, ingredient, r1.s)
                    ELSE r1)
           Both(same_prefix_list, same_suffix_list) ==
             Suffix(same_suffix_list,
                    IF same_prefix_list # <<>>
                      THEN PlaceOneDistractor(m, same_prefix_list, ingredient, s)
                      ELSE [M |-> m, s |-> s])
           Lists(name) ==
             IF m.entities[ingredient].parent = Inventory \/ Blanks(CodePoints[name]) = {}
               THEN PlaceLexicalDistractors(m, Tail(foods), allowed_foods, s)
             ELSE Both(SamePrefixList(allowed_foods, name), SameSuffixList(allowed_foods, name))
       IN  Lists(m.entities[ingredient].name)

\* rng.randn(1) * 3 + nb_ingredients, truncated: the normal draw is
\* abstracted to -1, 0 or 1
NbDistractors(s, nb_ingredients) ==
  LET d == Draw(s, 3)
      n == 3 * (d.v - 1) + nb_ingredients
  IN  [v |-> IF n < 0 THEN -n ELSE n, s |-> d.s]

\* make: the inventory capacity, the lexical and the random distractors
Distractors(m, streams, r, drop, cut, allowed) ==
  LET Placed(nb, placed) ==
        [M    |-> placed.M,
         rngs |-> [streams EXCEPT !.objects = placed.s],
         R    |-> [r EXCEPT !.inventory_limit = InventoryLimit(r.nb_ingredients, drop, cut),
                            !.nb_distractors = nb.v, !.distractors = placed.entities]]
      Random(lex, nb) ==
        Placed(nb, PlaceRandomFoods(lex.M, nb.v, nb.s, allowed.foods))
      Number(lex) ==
        Random(lex, NbDistractors(lex.s, r.nb_ingredients))
  IN  Number(PlaceLexicalDistractors(m, r.ingredient_foods, allowed.foods, streams.objects))

MakeDistractors ==
  /\ pc = "distractors"
  /\ \E drop \in BOOLEAN :
       /\ Reads("drop", drop)
       /\ settings' = With("drop", drop)
       /\ \E r \in {Distractors(M, rngs, R, drop, settings.cut, Allowed(settings))} :
            M' = r.M /\ rngs' = r.rngs /\ R' = r.R
  /\ pc' = "reshuffle"
  /\ UNCHANGED <<rooms_to_place, walk, G, quests, quests_rerun, walkthrough, play, err>>

\* the new recipe keeps every potential ingredient
ReshuffleAll(m, streams, r, recipe_seed, allowed) ==
  LET Chosen(foods, chosen) ==
        [rngs |-> [streams EXCEPT !.recipe = chosen.s],
         R    |-> [r EXCEPT !.ingredient_foods = foods, !.ingredients = chosen.ingredients],
         err  |-> chosen.err]
      Choose(sh, foods) ==
        Chosen(foods, ChoosePreparations(m, foods, allowed.preps, sh.s, <<>>))
  IN  Choose(Shuffle(r.ingredient_foods \o r.distractors, recipe_seed),
             Shuffle(r.ingredient_foods \o r.distractors, recipe_seed).seq)

\* make: the new recipe, sampled among the ingredients and the distractors
\* with the stream RandomState(recipe_seed)
Reshuffle(m, streams, r, recipe_seed, allowed) ==
  LET Chosen(foods, chosen) ==
        [rngs |-> [streams EXCEPT !.recipe = chosen.s],
         R    |-> [r EXCEPT !.ingredient_foods = foods, !.ingredients = chosen.ingredients],
         err  |-> chosen.err]
      Choose(sh, foods) ==
        Chosen(foods, ChoosePreparations(m, foods, allowed.preps, sh.s, <<>>))
      Take(sh) ==
        Choose(sh, Prefix(sh.seq, r.nb_ingredients))
  IN  Take(Shuffle(r.ingredient_foods \o r.distractors, recipe_seed))

\* the take skill is taken as given
TakeAssumed(take) ==
  TRUE

\* assert settings.get("take", 0)
TakeEnabled(take) ==
  take # 0

\* make: `if settings["recipe_seed"] > 0:`, which asserts the take skill
MakeReshuffle ==
  /\ pc = "reshuffle"
  /\ \E recipe_seed \in 0..MaxSeed :
       /\ Reads("recipe_seed", recipe_seed)
       /\ IF recipe_seed = 0
            THEN /\ settings' = With("recipe_seed", recipe_seed)
                 /\ pc' = "facts"
                 /\ UNCHANGED <<rngs, R, err>>
            ELSE \E take \in 0..1 :
                   /\ Reads("take", take)
                   /\ settings' = ("take" :> take) @@ With("recipe_seed", recipe_seed)
                   /\ IF ~TakeEnabled(take)
                        THEN /\ Raise("AssertionError: Shuffle recipe requires the 'take' skill.")
                             /\ UNCHANGED <<rngs, R>>
                        ELSE \E r \in {Reshuffle(M, rngs, R, recipe_seed, Allowed(settings))} :
                               /\ rngs' = r.rngs /\ R' = r.R
                               /\ IF r.err = "" THEN pc' = "facts" /\ err' = err
                                  ELSE Raise(r.err)
  /\ UNCHANGED <<rooms_to_place, walk, G, M, quests, quests_rerun, walkthrough, play>>

(***************************************************************************)
(* make: the recipe facts, the quests, the walkthrough and the build.      *)
(***************************************************************************)
\* "ingredient_{}".format(i + 1)
IngredientProperty ==
  <<"ingredient_1", "ingredient_2", "ingredient_3", "ingredient_4", "ingredient_5">>

\* make: `for i, (food, type_of_cooking, type_of_cutting) in enumerate(ingredients)`
\* from the i-th ingredient on: an ingredient entity in the recipe, carrying
\* the target states, and the food marked ingredient_i
RECURSIVE AddRecipeFacts(_, _, _)
AddRecipeFacts(m, ingredients, i) ==
  IF i > Len(ingredients) THEN m
  ELSE LET m1 == New(m, "ingredient", "")
           m2 == AddProps(m1, Last(m1), {ingredients[i].cutting, ingredients[i].cooking})
           m3 == AddTo(m2, FindByName(m, ""), Last(m1))
       IN  AddRecipeFacts(AddProps(m3, ingredients[i].food, {IngredientProperty[i]}), ingredients, i + 1)

\* make: `if not settings.get("cook")`: the food is already cooked accordingly
AlreadyCooked(m, food, type_of_cooking) ==
  LET m1 == AddProps(m, food, {type_of_cooking, "cooked"})
      m2 == IF HasProp(m1, food, "inedible")
              THEN RemoveProp(AddProps(m1, food, {"edible"}), food, "inedible")
              ELSE m1
      m3 == IF HasProp(m2, food, "raw") THEN RemoveProp(m2, food, "raw") ELSE m2
  IN  IF HasProp(m3, food, "needs_cooking") THEN RemoveProp(m3, food, "needs_cooking") ELSE m3

\* make: `if not settings.get("cut")`: the food is already cut accordingly
AlreadyCut(m, food, type_of_cutting) ==
  RemoveProp(AddProps(m, food, {type_of_cutting}), food, "uncut")

\* make: `for food, type_of_cooking, type_of_cutting in ingredients`
RECURSIVE AdjustFoods(_, _, _, _)
AdjustFoods(m, ingredients, cook, cut) ==
  IF ingredients = <<>> THEN m
  ELSE LET g  == Head(ingredients)
           m1 == IF ~cook THEN AlreadyCooked(m, g.food, g.cooking) ELSE m
           m2 == IF ~cut THEN AlreadyCut(m1, g.food, g.cutting) ELSE m1
       IN  AdjustFoods(m2, Tail(ingredients), cook, cut)

\* only the closed doors become open
OpenDoorsOnly(m) ==
  [m EXCEPT !.entities = [k \in DOMAIN m.entities |->
      IF "closed" \in m.entities[k].props /\ m.entities[k].type = "d"
        THEN [m.entities[k] EXCEPT !.props = (@ \ {"closed"}) \cup {"open"}]
        ELSE m.entities[k]]]

\* every closed entity is marked open and stays closed
OpenEverythingKeepClosed(m) ==
  [m EXCEPT !.entities = [k \in DOMAIN m.entities |->
      IF "closed" \in m.entities[k].props
        THEN [m.entities[k] EXCEPT !.props = @ \cup {"open"}]
        ELSE m.entities[k]]]

\* make: `if not settings.get("open")`: every closed entity becomes open
OpenEverything(m) ==
  [m EXCEPT !.entities = [k \in DOMAIN m.entities |->
      IF "closed" \in m.entities[k].props
        THEN [m.entities[k] EXCEPT !.props = (@ \ {"closed"}) \cup {"open"}]
        ELSE m.entities[k]]]

\* make: the facts of the recipe and the properties of the foods and holders
MakeRecipeFacts ==
  /\ pc = "facts"
  /\ \E open \in BOOLEAN :
       /\ Reads("open", open)
       /\ settings' = With("open", open)
       /\ \E m \in {AdjustFoods(AddRecipeFacts(M, R.ingredients, 1), R.ingredients,
                               settings.cook, settings.cut)} :
            M' = IF open THEN m ELSE OpenEverything(m)
  /\ pc' = "quests"
  /\ UNCHANGED <<rngs, rooms_to_place, walk, G, R, quests, quests_rerun, walkthrough, play, err>>

\* an Event with the single condition name(food); "in" is in(food, inventory)
Event(name, food) ==
  [name |-> name, food |-> food]

Quest(win_events, fail_events) ==
  [win_events |-> win_events, fail_events |-> fail_events]

Reverse(x) ==
  [k \in DOMAIN x |-> x[Len(x) + 1 - k]]

\* the orders in which a run can iterate set(TYPES_OF_COOKING[1:]) and
\* set(TYPES_OF_CUTTING[1:]): the order of a set of strings follows the
\* hashes of the process; two of the possible orders are kept
HashOrders ==
  {[cooking |-> Tail(TYPES_OF_COOKING), cutting |-> Tail(TYPES_OF_CUTTING)],
   [cooking |-> Reverse(Tail(TYPES_OF_COOKING)), cutting |-> Reverse(Tail(TYPES_OF_CUTTING))]}

\* the target state is not taken out of the set
EveryState(order, target, food) ==
  [k \in DOMAIN order |-> Event(order[k], food)]

\* the default state of the vocabulary is a wrong state as well
WrongStatesAndDefault(order, target, food) ==
  LET types == <<IF InSeq("fried", order) THEN TYPES_OF_COOKING[1] ELSE TYPES_OF_CUTTING[1]>> \o order
      wrong == SelectSeq(types, LAMBDA t : t # target)
  IN  [k \in DOMAIN wrong |-> Event(wrong[k], food)]

\* [Event(t, food) for t in set(types[1:]) - {target}], in iteration order
WrongStates(order, target, food) ==
  LET wrong == SelectSeq(order, LAMBDA t : t # target)
  IN  [k \in DOMAIN wrong |-> Event(wrong[k], food)]

\* the quests of one ingredient, the first of them failing on 'consumed'
IngredientQuestsConsumed(m, g, order) ==
  LET consumed == Event("consumed", g.food)
      holding  == IF m.entities[g.food].parent # Inventory
                    THEN <<Quest(<<Event("in", g.food)>>, <<>>)>>
                    ELSE <<>>
      cooked   == IF g.cooking # TYPES_OF_COOKING[1] /\ ~HasProp(m, g.food, g.cooking)
                    THEN <<Event(g.cooking, g.food)>> ELSE <<>>
      cut      == IF g.cutting # TYPES_OF_CUTTING[1] /\ ~HasProp(m, g.food, g.cutting)
                    THEN <<Event(g.cutting, g.food)>> ELSE <<>>
  IN  <<Quest(<<>>, <<consumed>>)>> \o holding
      \o <<Quest(cooked, <<consumed>> \o WrongStates(order.cooking, g.cooking, g.food)),
           Quest(cut, <<consumed>> \o WrongStates(order.cutting, g.cutting, g.food))>>

\* make: the quests of one ingredient
IngredientQuests(m, g, order) ==
  LET consumed == Event("consumed", g.food)
      holding  == IF m.entities[g.food].parent # Inventory
                    THEN <<Quest(<<Event("in", g.food)>>, <<>>)>>
                    ELSE <<>>
      cooked   == IF g.cooking # TYPES_OF_COOKING[1] /\ ~HasProp(m, g.food, g.cooking)
                    THEN <<Event(g.cooking, g.food)>> ELSE <<>>
      cut      == IF g.cutting # TYPES_OF_CUTTING[1] /\ ~HasProp(m, g.food, g.cutting)
                    THEN <<Event(g.cutting, g.food)>> ELSE <<>>
  IN  <<Quest(<<>>, <<Event("burned", g.food)>>)>> \o holding
      \o <<Quest(cooked, <<consumed>> \o WrongStates(order.cooking, g.cooking, g.food)),
           Quest(cut, <<consumed>> \o WrongStates(order.cutting, g.cutting, g.food))>>

\* make: `for i, ingredient in enumerate(ingredients)`
RECURSIVE Quests(_, _, _)
Quests(m, ingredients, order) ==
  IF ingredients = <<>> THEN <<>>
  ELSE IngredientQuests(m, Head(ingredients), order) \o Quests(m, Tail(ingredients), order)

\* make: M.quests = quests
MakeQuests ==
  /\ pc = "quests"
  /\ \E order \in HashOrders : quests' = Quests(M, R.ingredients, order)
  /\ pc' = "walkthrough"
  /\ UNCHANGED <<settings, rngs, rooms_to_place, walk, G, M, R, quests_rerun, walkthrough, play, err>>

\* the rooms one path away from room r
Adjacent(m, r) ==
  UNION {p.rooms \ {r} : p \in {q \in m.paths : r \in q.rooms}}

\* the rooms at most k paths away from room r
RECURSIVE Within(_, _, _)
Within(m, r, k) ==
  IF k = 0 THEN {r}
  ELSE LET W == Within(m, r, k - 1)
       IN  W \cup UNION {Adjacent(m, q) : q \in W}

Distance(m, a, b) ==
  MinOf({k \in 0..Len(RoomsOf(m)) : a \in Within(m, b, k)})

\* a path that leaves out the rooms on the way
StayPut(m, start, end) ==
  <<start>>

\* nx.algorithms.shortest_path(G, start.id, end.id) over compute_graph(M)
RECURSIVE ShortestPath(_, _, _)
ShortestPath(m, start, end) ==
  IF start = end THEN <<start>>
  ELSE LET d    == Distance(m, start, end)
           next == MinOf({q \in Adjacent(m, start) : Distance(m, q, end) = d - 1})
       IN  <<start>> \o ShortestPath(m, next, end)

\* exit.direction: the direction of room b seen from the adjacent room a
Direction(m, a, b) ==
  LET dx == m.entities[b].pos[1] - m.entities[a].pos[1]
      dy == m.entities[b].pos[2] - m.entities[a].pos[2]
  IN  IF dx = 0 /\ dy = 1 THEN "north"
      ELSE IF dx = 0 /\ dy = -1 THEN "south"
      ELSE IF dx = 1 /\ dy = 0 THEN "east"
      ELSE "west"

\* a command of the walkthrough: "<verb> <obj>" or "<verb> <obj> from <from>"
Command(verb, obj, from) ==
  [verb |-> verb, obj |-> obj, from |-> from]

\* move(M, G, start, end): `for node in path[1:]`, from the k-th room of the path on
RECURSIVE MoveAlong(_, _, _)
MoveAlong(m, path, k) ==
  IF k >= Len(path) THEN <<>>
  ELSE LET found == CHOOSE p \in FindPath(m, path[k], path[k + 1]) : TRUE
           open  == IF found.door # 0
                      THEN <<Command("open", m.entities[found.door].name, "")>>
                      ELSE <<>>
       IN  open \o <<Command("go", Direction(m, path[k], path[k + 1]), "")>>
           \o MoveAlong(m, path, k + 1)

move(m, start, end) ==
  MoveAlong(m, ShortestPath(m, start, end), 1)

\* make: `for entity in M.inventory.content`
DropUnneeded(m, ingredient_foods) ==
  LET carried == SelectSeq([k \in DOMAIN m.entities |-> k],
                           LAMBDA k : m.entities[k].parent = Inventory /\ ~InSeq(k, ingredient_foods))
  IN  [k \in DOMAIN carried |-> Command("drop", m.entities[carried[k]].name, "")]

\* make: `for food, type_of_cooking, type_of_cutting in ingredients` (2. Collect the ingredients)
RECURSIVE Collect(_, _, _)
Collect(m, ingredients, current_room) ==
  IF ingredients = <<>> THEN <<>>
  ELSE LET food      == Head(ingredients).food
           parent    == m.entities[food].parent
           food_room == IF m.entities[parent].parent # 0 THEN m.entities[parent].parent ELSE parent
           open      == IF HasProp(m, parent, "closed")
                          THEN <<Command("open", m.entities[parent].name, "")>>
                          ELSE <<>>
           take      == IF parent = food_room
                          THEN Command("take", m.entities[food].name, "")
                          ELSE Command("take", m.entities[food].name, m.entities[parent].name)
       IN  IF parent = Inventory THEN Collect(m, Tail(ingredients), current_room)
           ELSE move(m, current_room, food_room) \o open \o <<take>>
                \o Collect(m, Tail(ingredients), food_room)

\* make: the walkthrough
Walkthrough(m, r) ==
  move(m, r.start_room, r.kitchen) \o <<Command("examine", "shopping list", "")>>
  \o DropUnneeded(m, r.ingredient_foods) \o Collect(m, r.ingredients, r.kitchen)

MakeWalkthrough ==
  /\ pc = "walkthrough"
  /\ walkthrough' = Walkthrough(M, R)
  /\ pc' = "build"
  /\ UNCHANGED <<settings, rngs, rooms_to_place, walk, G, M, R, quests, quests_rerun, play, err>>

\* make: `for i in range(inventory_limit)`: a slot, used while
\* i < len(M.inventory.content), free afterwards
RECURSIVE AddSlots(_, _, _)
AddSlots(m, i, inventory_limit) ==
  IF i >= inventory_limit THEN m
  ELSE LET m1 == New(m, "slot", "")
           content == {k \in DOMAIN m.entities : m.entities[k].parent = Inventory}
       IN  AddSlots(AddProps(m1, Last(m1), IF i < Cardinality(content) THEN {"used"} ELSE {"free"}),
                    i + 1, inventory_limit)

\* make (sanity checks): some container or door is neither closed, open nor locked
ForgotOpenness(m) ==
  \E k \in DOMAIN m.entities :
    /\ m.entities[k].type \in {"c", "d"}
    /\ m.entities[k].props \cap {"closed", "open", "locked"} = {}

\* make: the slots, the sanity checks, M.set_walkthrough and M.build()
MakeBuild ==
  /\ pc = "build"
  /\ \E m \in {IF settings.drop THEN AddSlots(M, 0, R.inventory_limit) ELSE M} :
       /\ M' = m
       /\ IF ForgotOpenness(m)
            THEN /\ Raise("ValueError: Forgot to add closed/locked/open property")
                 /\ UNCHANGED R
            ELSE /\ pc' = "done"
                 /\ err' = err
                 /\ R' = [R EXCEPT !.walkthrough_set = ~settings.drop]
  /\ UNCHANGED <<settings, rngs, rooms_to_place, walk, G, quests, quests_rerun, walkthrough, play>>

\* a second run of make on the same seeds and settings: it differs from the
\* first in nothing but the order in which its process iterates the sets
MakeAgain ==
  /\ pc = "done"
  /\ \E order \in HashOrders : quests_rerun' = Quests(M, R.ingredients, order)
  /\ pc' = "compared"
  /\ UNCHANGED <<settings, rngs, rooms_to_place, walk, G, M, R, quests, walkthrough, play, err>>

(***************************************************************************)
(* Replaying the walkthrough in the built game.  play is the state of the  *)
(* player: the index k of the next command, the room, the containers and   *)
(* doors opened and the foods held so far, and the indices of the commands *)
(* the game refused because they were not applicable.                      *)
(***************************************************************************)
\* a container or door that is closed at this point of the game
IsClosed(m, p, e) ==
  HasProp(m, e, "closed") /\ e \notin p.opened

\* the doors on the paths out of room r
DoorsAt(m, r) ==
  {q.door : q \in {q \in m.paths : r \in q.rooms /\ q.door # 0}}

\* the entities named `name` that the player can reach from the room
Reachable(m, p, name) ==
  {e \in DOMAIN m.entities :
     /\ m.entities[e].name = name
     /\ \/ e \in DoorsAt(m, p.room)
        \/ m.entities[e].parent = p.room
        \/ /\ m.entities[e].parent \in DOMAIN m.entities
           /\ m.entities[m.entities[e].parent].parent = p.room
           /\ ~IsClosed(m, p, m.entities[e].parent)}

\* the capacity of the inventory: the slots, if the drop skill makes any
Capacity(m) ==
  IF FindAll(m, "slot") = {} THEN Len(m.entities) ELSE Cardinality(FindAll(m, "slot"))

\* the rooms an exit in direction d of the room leads to, through an open door if any
Exits(m, p, d) ==
  {q \in Adjacent(m, p.room) :
     /\ Direction(m, p.room, q) = d
     /\ \A path \in FindPath(m, p.room, q) : path.door = 0 \/ ~IsClosed(m, p, path.door)}

\* whether command c is applicable in play state p
Applicable(m, p, c) ==
  IF c.verb = "go" THEN Exits(m, p, c.obj) # {}
  ELSE IF c.verb = "open" THEN \E e \in Reachable(m, p, c.obj) : IsClosed(m, p, e)
  ELSE IF c.verb = "take"
    THEN /\ Cardinality(p.held) < Capacity(m)
         /\ \E e \in Reachable(m, p, c.obj) \ p.held :
              IF c.from = "" THEN m.entities[e].parent = p.room
              ELSE m.entities[m.entities[e].parent].name = c.from
  ELSE IF c.verb = "drop" THEN \E e \in p.held : m.entities[e].name = c.obj
  ELSE Reachable(m, p, c.obj) # {}

\* the play state after the applicable command c
Apply(m, p, c) ==
  IF c.verb = "go" THEN [p EXCEPT !.room = CHOOSE q \in Exits(m, p, c.obj) : TRUE]
  ELSE IF c.verb = "open"
    THEN [p EXCEPT !.opened = @ \cup {CHOOSE e \in Reachable(m, p, c.obj) : IsClosed(m, p, e)}]
  ELSE IF c.verb = "take"
    THEN [p EXCEPT !.held = @ \cup {CHOOSE e \in Reachable(m, p, c.obj) \ p.held : TRUE}]
  ELSE IF c.verb = "drop"
    THEN [p EXCEPT !.held = @ \ {e \in p.held : m.entities[e].name = c.obj}]
  ELSE p

\* the player starts in the start room
ReplayBegin ==
  /\ pc = "done"
  /\ play' = [PlayInit EXCEPT !.k = 1, !.room = M.player]
  /\ pc' = "replay"
  /\ UNCHANGED <<settings, rngs, rooms_to_place, walk, G, M, R, quests, quests_rerun, walkthrough, err>>

\* the next command of the walkthrough: it acts if applicable, and is refused if not
ReplayStep ==
  /\ pc = "replay"
  /\ play.k <= Len(walkthrough)
  /\ \E p \in {IF Applicable(M, play, walkthrough[play.k])
                THEN Apply(M, play, walkthrough[play.k])
                ELSE [play EXCEPT !.refused = @ \cup {play.k}]} :
       play' = [p EXCEPT !.k = @ + 1]
  /\ UNCHANGED <<pc, settings, rngs, rooms_to_place, walk, G, M, R, quests, quests_rerun, walkthrough, err>>

\* the walkthrough is over
ReplayEnd ==
  /\ pc = "replay"
  /\ play.k > Len(walkthrough)
  /\ pc' = "played"
  /\ UNCHANGED <<settings, rngs, rooms_to_place, walk, G, M, R, quests, quests_rerun, walkthrough, play, err>>

\* whether the condition of an event holds in play state p
Holds(m, p, event) ==
  IF event.name = "in" THEN event.food \in p.held
  ELSE HasProp(m, event.food, event.name)

\* every win event of the quest holds
Won(m, p, quest) ==
  \A k \in DOMAIN quest.win_events : Holds(m, p, quest.win_events[k])

\* some fail event of the quest holds
Failed(m, p, quest) ==
  \E k \in DOMAIN quest.fail_events : Holds(m, p, quest.fail_events[k])

(***************************************************************************)
(* Specifications.                                                         *)
(***************************************************************************)
\* options.seeds: the streams of one run are seeded from one seed
Streams(seed) ==
  [map |-> seed, objects |-> seed + 101, quest |-> seed + 202, recipe |-> 0]

Init ==
  /\ pc = "start"
  /\ settings = << >>
  /\ \E seed \in 0..MaxSeed : rngs = Streams(seed)
  /\ rooms_to_place = <<>>
  /\ walk = WalkInit
  /\ G = NoGraph
  /\ M = EmptyWorld
  /\ R = RInit
  /\ quests = <<>>
  /\ quests_rerun = <<>>
  /\ walkthrough = <<>>
  /\ play = PlayInit
  /\ err = ""

Next ==
  \/ MakeTables
  \/ MakeRooms
  \/ PlaceRoomsBegin
  \/ PlaceRoomsNextStart
  \/ PlaceRoomsNextGroup
  \/ WalkEnter
  \/ WalkLoop
  \/ WalkNames
  \/ WalkReturn
  \/ MakeGraphWorld
  \/ MakeImportGraph
  \/ MakeDoors
  \/ MakeFurniture
  \/ MakeIngredients
  \/ MakeDistractors
  \/ MakeReshuffle
  \/ MakeRecipeFacts
  \/ MakeQuests
  \/ MakeWalkthrough
  \/ MakeBuild
  \/ MakeAgain
  \/ ReplayBegin
  \/ ReplayStep
  \/ ReplayEnd

Spec ==
  Init /\ [][Next]_vars

\* options.seeds of further runs of make: seed 12 draws an apple among the
\* five ingredients of a one-room game, seed 374 leads place_rooms to a
\* layout of ten rooms that closes a cycle
DoorSeeds ==
  {0, 12, 374}

InitDoors ==
  /\ pc = "start"
  /\ settings = << >>
  /\ \E seed \in DoorSeeds : rngs = Streams(seed)
  /\ rooms_to_place = <<>>
  /\ walk = WalkInit
  /\ G = NoGraph
  /\ M = EmptyWorld
  /\ R = RInit
  /\ quests = <<>>
  /\ quests_rerun = <<>>
  /\ walkthrough = <<>>
  /\ play = PlayInit
  /\ err = ""

SpecDoors ==
  InitDoors /\ [][Next]_vars

\* RandomWalk(neighbors=NEIGHBORS, size=(5, 5), rng=rng).place_rooms(rooms) on its own
InitWalk ==
  /\ pc = "layout"
  /\ settings = << >>
  /\ \E seed \in 0..MaxSeed : rngs = Streams(seed)
  /\ \E nb_rooms \in {1, 6, 10} : rooms_to_place = RoomsFor(nb_rooms)
  /\ walk = WalkInit
  /\ G = NoGraph
  /\ M = EmptyWorld
  /\ R = RInit
  /\ quests = <<>>
  /\ quests_rerun = <<>>
  /\ walkthrough = <<>>
  /\ play = PlayInit
  /\ err = ""

SpecWalk ==
  InitWalk /\ [][NextWalk]_vars


\* place_rooms can take a step exactly as long as it has not returned
Returned ==
  walk.at = "done"

\* place_rooms runs without interruption: weak fairness of its steps,
\* WF_vars(NextWalk), with ENABLED <<NextWalk>>_vars written out as ~Returned
SpecWalkFair ==
  InitWalk /\ [][NextWalk]_vars /\ ([]<>Returned \/ []<><<NextWalk>>_vars)

(***************************************************************************)
(* Properties.                                                             *)
(***************************************************************************)
\* the room names handed to place_rooms
Requested ==
  UNION {Range(rooms_to_place[k]) : k \in DOMAIN rooms_to_place}

\* the nodes of g one edge away from the set S, and S
Grown(g, S) ==
  S \cup {q \in Positions(g) : \E p \in S : {p, q} \in g.edges}

RECURSIVE Component(_, _)
Component(g, S) ==
  IF Grown(g, S) = S THEN S ELSE Component(g, Grown(g, S))

Connected(g) ==
  g.nodes = <<>> \/ Component(g, {g.nodes[1].pos}) = Positions(g)

\* C1: every graph place_rooms returns is connected, names each requested
\* room on exactly one node, and joins by an edge only rooms that each list
\* the other in NEIGHBORS.
C1_AcceptedLayout ==
  (walk.at = "done" /\ walk.G.ok) =>
    /\ Connected(walk.G)
    /\ \A name \in Requested :
         Cardinality({k \in DOMAIN walk.G.nodes : walk.G.nodes[k].name = name}) = 1
    /\ \A e \in walk.G.edges :
         /\ Cardinality(e) = 2
         /\ e \subseteq Positions(walk.G)
         /\ \A p, q \in e : p # q => InSeq(NameAt(walk.G, q), NEIGHBORS[NameAt(walk.G, p)])

\* place_rooms returned a graph of several rooms that holds a cycle: an edge
\* was walked onto an occupied node
C1_Witness ==
  /\ walk.at = "done"
  /\ walk.G.ok
  /\ Len(walk.G.nodes) > 1
  /\ Cardinality(walk.G.edges) >= Len(walk.G.nodes)

\* C2: replaying the emitted walkthrough from the start room, every command
\* is applicable when its turn comes, no fail event of a quest ever holds,
\* and at the end every win event of every quest holds.
C2_WalkthroughWins ==
  /\ pc \in {"replay", "played"} =>
       /\ play.refused = {}
       /\ \A k \in DOMAIN quests : ~Failed(M, play, quests[k])
  /\ pc = "played" => \A k \in DOMAIN quests : Won(M, play, quests[k])

\* the allowed-preparations table of the run, once its three settings are read
TablesRead ==
  {"split", "cut", "cook"} \subseteq DOMAIN settings

\* C3: every food selected as ingredient has a non-empty entry in the
\* allowed-preparations table of the run, whatever the split and the skills,
\* the table of every split can be built, and every ingredient's
\* (cooking, cutting) pair is a member of the entry of its food.
C3_IngredientsAllowed ==
  /\ err # "KeyError: get_food_preparations"
  /\ TablesRead =>
       /\ \A k \in DOMAIN R.ingredient_foods :
            LET name == M.entities[R.ingredient_foods[k]].name
            IN  /\ name \in DOMAIN Allowed(settings).preps
                /\ Allowed(settings).preps[name] # <<>>
       /\ \A k \in DOMAIN R.ingredients :
            LET g == R.ingredients[k]
            IN  /\ M.entities[g.food].name \in DOMAIN Allowed(settings).preps
                /\ InSeq(<<g.cooking, g.cutting>>, Allowed(settings).preps[M.entities[g.food].name])

\* make returned an instance
Finished ==
  pc \in {"done", "replay", "played", "compared"}

\* the containers and doors of the world
Openables(m) ==
  {k \in DOMAIN m.entities : m.entities[k].type \in {"c", "d"}}

\* C4: in a finished instance every container and every door carries exactly
\* one of the properties open, closed and locked, with the open skill or
\* without it.
C4_OneOpenness ==
  Finished =>
    \A k \in Openables(M) :
      Cardinality(M.entities[k].props \cap {"open", "closed", "locked"}) = 1

\* a finished instance without the open skill that has a door and a container
C4_Witness ==
  /\ Finished
  /\ ~settings.open
  /\ \E k, l \in Openables(M) : M.entities[k].type = "d" /\ M.entities[l].type = "c"

\* the doors step of make is over
DoorsAdded ==
  pc \notin {"start", "rooms", "layout", "import_graph", "doors"} /\ M.paths # {}

\* C5: the assertion `path.door is None` never fails, and once the loop over
\* DOORS is over every door stands on exactly one path, between two rooms that
\* a DOORS entry names, and no two paths share a door.
C5_OneDoorPerPath ==
  /\ err # "AssertionError: path.door is None"
  /\ DoorsAdded =>
       /\ \A d \in FindAll(M, "d") : Cardinality({p \in M.paths : p.door = d}) = 1
       /\ \A p \in M.paths :
            p.door # 0 =>
              /\ M.entities[p.door].type = "d"
              /\ \E k \in DOMAIN DOORS :
                   {M.entities[r].name : r \in p.rooms} = Range(DOORS[k].path)

\* the loop over DOORS made three doors
C5_Witness ==
  /\ pc = "furniture"
  /\ Cardinality({p \in M.paths : p.door # 0}) = 3

\* C6: a second run of make on the same seeds and settings builds the same
\* quests, win and fail events in the same order.
C6_Deterministic ==
  pc = "compared" => quests_rerun = quests

\* the most room names a NEIGHBORS entry lists
MaxNeighbors ==
  MaxOf({Len(NEIGHBORS[name]) : name \in DOMAIN NEIGHBORS})

\* a statement of place_rooms or of the innermost call of _walk is next
Runnable ==
  \/ walk.at \in {"begin", "start", "group"}
  \/ /\ walk.at = "walk"
     /\ walk.stack # <<>>
     /\ Top.at \in {"enter", "loop", "names", "return"}

\* place_rooms at any moment: until it returns a statement is next to run;
\* the start nodes are the grid nodes, each once;
\* the calls of _walk that are active and the calls made for the current
\* group are bounded through max_attempts; what place_rooms returns is a
\* graph that names exactly the requested rooms, or the failure value
C7_Bounded ==
  /\ ~Returned => Runnable
  /\ walk.at # "begin" =>
       /\ Len(walk.starts) = Len(GridNodes)
       /\ Range(walk.starts) = Range(GridNodes)
       /\ walk.si <= Len(walk.starts)
  /\ Len(walk.stack) <= MaxAttempts + 1
  /\ walk.calls <= 1 + MaxAttempts * 4 * MaxNeighbors
  /\ walk.at = "done" =>
       IF walk.G.ok THEN {walk.G.nodes[k].name : k \in DOMAIN walk.G.nodes} = Requested
       ELSE walk.G = NoGraph /\ walk.si = Len(walk.starts)

\* C7: place_rooms always terminates: it stays within the bounds above, it
\* goes through the start nodes one by one and never back, and it returns.
C7_PlaceRoomsTerminates ==
  /\ []C7_Bounded
  /\ [][walk'.si # walk.si => (walk.at = "start" /\ walk'.si = walk.si + 1)]_vars
  /\ <>(walk.at = "done")

\* place_rooms has tried every grid node as start and returns the failure value
C7_Witness ==
  /\ walk.at = "done"
  /\ ~walk.G.ok
  /\ walk.si = Len(GridNodes)

\* C8: when place_rooms returns no graph make reports the layout as
\* unsatisfiable: it raises that error and hands no missing graph to the
\* world builder.
C8_LayoutFailureReported ==
  (pc # "layout" /\ walk.at = "done" /\ ~walk.G.ok) =>
    (pc = "error" /\ err = "LayoutUnsatisfiable")

\* the configuration read so far is invalid
InvalidConfiguration ==
  \/ "go" \in DOMAIN settings /\ settings.go \notin {1, 6, 10}
  \/ "recipe" \in DOMAIN settings /\ settings.recipe \notin 1..5

\* C9: a room count outside {1, 6, 10} and a recipe size outside 1..5 make
\* make raise: it goes no further, builds no quest and no walkthrough and
\* returns no instance.
C9_InvalidConfigurationRaises ==
  InvalidConfiguration =>
    /\ pc = "error"
    /\ err \in {"ValueError: Shopping games can only have {1, 6, 10} rooms.",
                "AssertionError: recipe must have {1,2,3,4,5} ingredients."}
    /\ R.ingredients = <<>>
    /\ quests = <<>>
    /\ walkthrough = <<>>

\* make raised on a recipe of six ingredients, asked of a world of ten rooms
C9_Witness ==
  /\ pc = "error"
  /\ {"go", "recipe"} \subseteq DOMAIN settings
  /\ settings.go = 10
  /\ settings.recipe = 6

\* the cut skill is enabled
CutEnabled ==
  "cut" \in DOMAIN settings /\ settings.cut

\* C10: with the cut skill no ingredient is to be left uncut; a food chosen
\* as ingredient whose preparation list the skill emptied makes make raise;
\* and a finished instance has a preparation for every entry of its recipe.
C10_CutNeverUncut ==
  CutEnabled =>
    /\ \A k \in DOMAIN R.ingredients : R.ingredients[k].cutting # "uncut"
    /\ TablesRead =>
         \A k \in DOMAIN R.ingredient_foods :
           LET name == M.entities[R.ingredient_foods[k]].name
           IN  (name \in DOMAIN Allowed(settings).preps /\ Allowed(settings).preps[name] = <<>>)
                 => (pc = "error" /\ Len(R.ingredients) < k)
    /\ Finished =>
         /\ Len(R.ingredients) = R.nb_ingredients
         /\ \A k \in DOMAIN R.ingredients :
              R.ingredients[k].food = R.ingredient_foods[k]

\* make raised on a chosen food that the cut skill left without preparation
C10_Witness ==
  /\ CutEnabled
  /\ pc = "error"
  /\ err = "ValueError: low >= high"
  /\ R.ingredient_foods # <<>>

\* the scenario of one room and a recipe of two, no skill, on the train split
OneRoomTwoFoods ==
  /\ Finished
  /\ settings.split = "train"
  /\ settings.go = 1
  /\ settings.recipe = 2
  /\ ~settings.open /\ ~settings.cook /\ ~settings.cut /\ ~settings.drop

\* C11: with go=1, recipe=2, no skill and the train split the instance has
\* exactly one room, a recipe of exactly two distinct foods of the train
\* tables, each prepared as the train table allows, no entity that is closed,
\* and a walkthrough that is not empty and holds only examine, take and drop
\* commands.
C11_OneRoomScenario ==
  OneRoomTwoFoods =>
    /\ Len(RoomsOf(M)) = 1
    /\ Len(R.ingredients) = 2
    /\ R.ingredients[1].food # R.ingredients[2].food
    /\ \A k \in DOMAIN R.ingredients :
         LET g    == R.ingredients[k]
             name == M.entities[g.food].name
         IN  /\ InSeq(name, FOODS_SPLITS.train)
             /\ InSeq(<<g.cooking, g.cutting>>, FOOD_PREPARATIONS_SPLITS.train[name])
    /\ \A e \in DOMAIN M.entities : ~HasProp(M, e, "closed")
    /\ walkthrough # <<>>
    /\ \A k \in DOMAIN walkthrough : walkthrough[k].verb \in {"examine", "take", "drop"}

\* an instance of the scenario whose walkthrough takes a food out of a
\* container that was created closed
C11_Witness ==
  /\ OneRoomTwoFoods
  /\ \E k \in DOMAIN walkthrough :
       /\ walkthrough[k].verb = "take"
       /\ walkthrough[k].from # ""
       /\ M.entities[FindByName(M, walkthrough[k].from)].type = "c"

\* the ingredients are selected and no reshuffle seed has changed them
RecipeAsSelected ==
  /\ pc \in {"distractors", "reshuffle", "facts", "quests", "walkthrough", "build"} \/ Finished
  /\ "recipe_seed" \in DOMAIN settings => settings.recipe_seed = 0

\* C12: without a reshuffle seed the recipe holds exactly the requested
\* number of ingredients, one per selected food, all of them distinct foods
\* of the allowed foods of the split, in ascending order of food name.
C12_RecipeSelection ==
  RecipeAsSelected =>
    /\ Len(R.ingredients) = settings.recipe
    /\ Len(R.ingredient_foods) = settings.recipe
    /\ \A k \in DOMAIN R.ingredients :
         /\ R.ingredients[k].food = R.ingredient_foods[k]
         /\ M.entities[R.ingredient_foods[k]].type = "f"
         /\ InSeq(M.entities[R.ingredient_foods[k]].name, Allowed(settings).foods)
    /\ \A k, l \in DOMAIN R.ingredient_foods :
         k < l => /\ R.ingredient_foods[k] # R.ingredient_foods[l]
                  /\ NameLess(M.entities[R.ingredient_foods[k]].name,
                              M.entities[R.ingredient_foods[l]].name)

\* a finished instance without reshuffle whose recipe of three or more lists
\* a food before one that was placed earlier: the sort moved it
C12_Witness ==
  /\ Finished
  /\ settings.recipe_seed = 0
  /\ settings.recipe >= 3
  /\ \E k \in DOMAIN R.ingredient_foods :
       k < Len(R.ingredient_foods) /\ R.ingredient_foods[k] > R.ingredient_foods[k + 1]

\* the facts of a list of events
Facts(events) ==
  Range(events)

\* the fail facts of a quest on the state of food g.food are states of the
\* vocabulary `types` other than `target`, next to the fact consumed(food)
WrongStatesOnly(quest, types, target, food) ==
  /\ Facts(quest.win_events) \subseteq {Event(target, food)}
  /\ Event(target, food) \notin Facts(quest.fail_events)
  /\ \A f \in Facts(quest.fail_events) :
       /\ f.food = food
       /\ f.name = "consumed" \/ (InSeq(f.name, types) /\ f.name # target)

DoorsAssigned ==
  pc \notin {"start", "rooms", "layout", "import_graph", "doors"} /\ G.ok

\* the pairs of room names with a door between them
DoorPairs(m) ==
  {{m.entities[r].name : r \in p.rooms} : p \in {q \in m.paths : q.door # 0}}

\* the pairs DOORS lists whose rooms are both nodes of g, joined by an edge of g
ListedPairs(g) ==
  LET names == {g.nodes[k].name : k \in DOMAIN g.nodes}
      at(name) == g.nodes[CHOOSE k \in DOMAIN g.nodes : g.nodes[k].name = name].pos
  IN  {Range(DOORS[k].path) : k \in {l \in DOMAIN DOORS :
         /\ Range(DOORS[l].path) \subseteq names
         /\ {at(DOORS[l].path[1]), at(DOORS[l].path[2])} \in g.edges}}

\* C14: after door assignment the room pairs with a door are exactly the
\* pairs of DOORS whose two rooms were placed and are joined by an edge of
\* the placement graph, one door each; an entry naming a room that was not
\* placed creates nothing, and the loop raises no error.
C14_DoorsAsListed ==
  DoorsAssigned =>
    /\ err \notin {"AssertionError: pick_name", "AssertionError: path.door is None"}
    /\ DoorPairs(M) = ListedPairs(G)
    /\ Cardinality(FindAll(M, "d")) = Cardinality(ListedPairs(G))

\* a reshuffle seed other than zero was supplied and the take setting is not enabled
SeedWithoutTake ==
  /\ "recipe_seed" \in DOMAIN settings
  /\ settings.recipe_seed # 0
  /\ "take" \in DOMAIN settings => settings.take = 0

\* a reshuffle seed other than zero without the take setting: make has
\* raised, and built neither quests nor walkthrough; with the seed zero the
\* recipe stream is never drawn from
C15_Raised ==
  /\ SeedWithoutTake =>
       /\ pc = "error"
       /\ err \in {"AssertionError: Shuffle recipe requires the 'take' skill.",
                   "ValueError: Seed must be between 0 and 2**32 - 1"}
       /\ quests = <<>>
       /\ walkthrough = <<>>
  /\ ("recipe_seed" \in DOMAIN settings /\ settings.recipe_seed = 0) => rngs.recipe = 0

\* C15: a non-zero recipe_seed without the take setting is a configuration
\* error: make raises and returns no instance; and on reading a recipe_seed
\* of zero make goes on without a reshuffle: the ingredients, their
\* preparations and the random streams stay as they are.
C15_SeedNeedsTake ==
  /\ []C15_Raised
  /\ [][(pc = "reshuffle" /\ settings'.recipe_seed = 0) =>
          (pc' = "facts" /\ R' = R /\ rngs' = rngs /\ M' = M)]_vars

\* make raised at the reshuffle: a positive seed was supplied without take,
\* after the ingredients and the distractors had been placed
C15_Witness ==
  /\ SeedWithoutTake
  /\ settings.recipe_seed > 0
  /\ pc = "error"
  /\ R.ingredients # <<>>

\* the recipe is final: its facts are added and the foods adjusted to the skills
RecipeFinal ==
  pc \in {"quests", "walkthrough", "build"} \/ Finished

\* the states of the vocabulary `types` that the food carries
StatesOf(m, food, types) ==
  m.entities[food].props \cap Range(types)

\* C16: once the recipe is final, without the cook skill every ingredient
\* carries its target cooking state, raw included, and without the cut skill
\* its target cutting state, uncut included, and no other state of the same
\* vocabulary.
C16_TargetStatesCarried ==
  RecipeFinal =>
    \A k \in DOMAIN R.ingredients :
      LET g == R.ingredients[k]
      IN  /\ ~settings.cook => StatesOf(M, g.food, TYPES_OF_COOKING) = {g.cooking}
          /\ ~settings.cut => StatesOf(M, g.food, TYPES_OF_CUTTING) = {g.cutting}

\* C17: without the open skill no entity of the finished instance is closed
\* and every container and door is open; with the open skill every container
\* and door of the finished instance is closed and none is open.
C17_OpenSkill ==
  Finished =>
    IF settings.open
      THEN \A k \in Openables(M) :
             HasProp(M, k, "closed") /\ ~HasProp(M, k, "open")
      ELSE /\ \A k \in DOMAIN M.entities : ~HasProp(M, k, "closed")
           /\ \A k \in Openables(M) : HasProp(M, k, "open")

\* a finished instance without the open skill in which a door is open and an
\* ingredient lies in a container that is open
C17_Witness ==
  /\ Finished
  /\ ~settings.open
  /\ \E d \in FindAll(M, "d") : HasProp(M, d, "open")
  /\ \E k \in DOMAIN R.ingredient_foods :
       LET holder == M.entities[R.ingredient_foods[k]].parent
       IN  /\ holder \in FindAll(M, "c")
           /\ HasProp(M, holder, "open")

\* the attempt counter of the current group has exceeded the ceiling
CeilingHit ==
  CeilingExceeded(walk.nb_attempts)

\* C18: once nb_attempts has exceeded max_attempts in the search for a
\* group, no call of _walk returns a graph any more, and the search for that
\* group hands no graph to place_rooms.
C18_CeilingAborts ==
  CeilingHit =>
    /\ walk.at = "walk" =>
         \A k \in DOMAIN walk.stack : walk.stack[k].at = "return" => ~walk.stack[k].ret.ok
    /\ (walk.at = "group" /\ walk.gi >= 1) => ~walk.G.ok

\* graph h is graph g with the edge from p to q added, and with q added as a
\* room of `remaining` if q was not a node of g
OneChoice(g, h, p, q, remaining) ==
  /\ h.ok
  /\ h.edges = g.edges \cup {{p, q}}
  /\ \/ h.nodes = g.nodes /\ InGraph(g, q)
     \/ /\ ~InGraph(g, q)
        /\ \E name \in remaining : h.nodes = Append(g.nodes, [pos |-> q, name |-> name])

\* graph h holds graph g: the nodes of g, in their order, come first
Extends(h, g) ==
  /\ Len(g.nodes) <= Len(h.nodes)
  /\ SubSeq(h.nodes, 1, Len(g.nodes)) = g.nodes
  /\ g.edges \subseteq h.edges

\* the active calls form one chain of choices: each was given the graph of
\* its caller with one choice added; a graph that a call returns is the
\* graph it was given with the rooms it had left, and nothing is returned
\* that a failed call added
C19_Chain ==
  walk.at = "walk" =>
    /\ \A k \in DOMAIN walk.stack :
         k < Len(walk.stack) =>
           /\ walk.stack[k].at = "called"
           /\ OneChoice(walk.stack[k].G, walk.stack[k + 1].G, walk.stack[k].node,
                        walk.stack[k + 1].node, walk.stack[k].remaining)
    /\ \A k \in DOMAIN walk.stack :
         (walk.stack[k].at = "return" /\ walk.stack[k].ret.ok) =>
           /\ Extends(walk.stack[k].ret, walk.stack[k].G)
           /\ {walk.stack[k].ret.nodes[l].name :
                 l \in (Len(walk.stack[k].G.nodes) + 1)..Len(walk.stack[k].ret.nodes)}
                = walk.stack[k].remaining
           /\ Len(walk.stack[k].ret.nodes) = Len(walk.stack[k].G.nodes) + Cardinality(walk.stack[k].remaining)

\* C19: a call of _walk never changes the graph it was given: as long as
\* it is active its graph, node and remaining set stay what they were, also
\* when a call it made fails; and the graph returned in the end holds only
\* what the one successful chain of choices added.
C19_CopyOnWrite ==
  /\ []C19_Chain
  /\ [][\A k \in DOMAIN walk.stack :
          k \in DOMAIN walk'.stack =>
            /\ walk'.stack[k].G = walk.stack[k].G
            /\ walk'.stack[k].node = walk.stack[k].node
            /\ walk'.stack[k].remaining = walk.stack[k].remaining]_vars

\* a call that placed a room failed, and its caller goes on with the graph
\* it had: the room is not in it
C19_Witness ==
  /\ walk.at = "walk"
  /\ Len(walk.stack) >= 2
  /\ Top.at = "names"
  /\ Top.j > 1
  /\ ~InGraph(Top.G, Top.node_)

\* C20: the calls of _walk that are active at any moment, one inside the
\* other, are at most as many as the rooms to place.
C20_DepthWithinRooms ==
  Len(walk.stack) <= Cardinality(Requested)

\* the room names of a placement graph
NamesOf(g) ==
  {g.nodes[k].name : k \in DOMAIN g.nodes}

\* in g no room of a group stands before every room of the groups before it does
InGroupOrder(g) ==
  \A k \in DOMAIN rooms_to_place :
    (k > 1 /\ NamesOf(g) \cap (Range(rooms_to_place[k]) \ {rooms_to_place[1][1]}) # {})
      => \A l \in 1..(k - 1) : Range(rooms_to_place[l]) \subseteq NamesOf(g)

\* every graph place_rooms and the active calls of _walk hold is in group
\* order, and a call has only rooms of the current group left to place
C21_Ordered ==
  /\ walk.G.ok => InGroupOrder(walk.G)
  /\ \A k \in DOMAIN walk.stack :
       /\ InGroupOrder(walk.stack[k].G)
       /\ walk.stack[k].remaining \subseteq Range(rooms_to_place[walk.gi])
       /\ walk.stack[k].ret.ok => InGroupOrder(walk.stack[k].ret)

\* place_rooms turns to a group: the next one of the list, searched from the
\* start node on the graph of the groups before it, with the counter at zero
C21_GroupStep ==
  (walk.at = "group" /\ walk'.at = "walk") =>
    /\ walk'.gi = walk.gi + 1
    /\ walk'.nb_attempts = 0
    /\ Len(walk'.stack) = 1
    /\ walk'.stack[1].node = walk.start
    /\ walk'.stack[1].G = walk.G
    /\ walk'.stack[1].remaining = Range(rooms_to_place[walk'.gi]) \ {rooms_to_place[1][1]}
    /\ \A l \in 1..walk.gi : Range(rooms_to_place[l]) \subseteq NamesOf(walk.G)

\* the search of a group failed: no later group is tried, and the next start
\* node, if any, begins again at the first group on a graph of its own
C21_FailureStep ==
  /\ (walk.at = "walk" /\ walk'.at # "walk") =>
       IF walk'.G.ok THEN walk'.at = "group" /\ walk'.gi = walk.gi /\ walk'.si = walk.si
       ELSE walk'.at = "start" /\ walk'.si = walk.si
  /\ (walk.at = "start" /\ walk'.at = "group") =>
       /\ walk'.si = walk.si + 1
       /\ walk'.start = walk.starts[walk'.si]
       /\ walk'.gi = 0
       /\ walk'.G = StartGraph(walk'.start, rooms_to_place[1][1])

\* C21: place_rooms places the groups in list order: no room of a group is
\* added before every room of the groups before it is in the graph, the
\* search of each group starts from the start node with the attempt counter
\* at zero, and a group that fails ends the placement for that start node:
\* all groups are placed again from the next start node, on a new graph.
C21_GroupsInOrder ==
  /\ []C21_Ordered
  /\ [][C21_GroupStep /\ C21_FailureStep]_vars

\* after a failure at another start node, the third group is being placed
C21_Witness ==
  /\ walk.at = "walk"
  /\ walk.si >= 2
  /\ walk.gi = 3
  /\ walk.nb_attempts > 0

\* the walkthrough is written
WalkthroughBuilt ==
  pc \in {"build", "done", "replay", "played", "compared"}

\* the k-th command opens something that an earlier command opened already
OpenedBefore(k) ==
  \E j \in 1..(k - 1) : walkthrough[j] = walkthrough[k]

\* C22: every 'open' of the walkthrough is for a door or container that is
\* closed at that point: closed in the built world and not opened by an
\* earlier command; an 'open' of a door is followed at once by a 'go', an
\* 'open' of a container by the 'take ... from' it.
C22_OpenOnlyClosed ==
  WalkthroughBuilt =>
    \A k \in DOMAIN walkthrough :
      walkthrough[k].verb = "open" =>
        /\ HasProp(M, FindByName(M, walkthrough[k].obj), "closed")
        /\ ~OpenedBefore(k)
        /\ k < Len(walkthrough)
        /\ IF M.entities[FindByName(M, walkthrough[k].obj)].type = "d"
             THEN walkthrough[k + 1].verb = "go"
             ELSE walkthrough[k + 1].verb = "take" /\ walkthrough[k + 1].from = walkthrough[k].obj

\* the positions of the commands that end a leg: the look at the shopping
\* list in the checkout and the take of each ingredient
LegEnds ==
  SelectSeq([k \in DOMAIN walkthrough |-> k],
            LAMBDA k : walkthrough[k].verb \in {"examine", "take"})

\* the commands of the i-th leg
Leg(i) ==
  SubSeq(walkthrough, (IF i = 1 THEN 0 ELSE LegEnds[i - 1]) + 1, LegEnds[i] - 1)

\* the room an entity lies in, 0 if it lies in no room
RECURSIVE RoomOf(_, _)
RoomOf(m, e) ==
  IF e \notin DOMAIN m.entities THEN 0
  ELSE IF m.entities[e].type = "r" THEN e
  ELSE RoomOf(m, m.entities[e].parent)

\* the room the i-th leg leads to, and the room it starts in
LegTo(i) ==
  IF i = 1 THEN R.kitchen ELSE RoomOf(M, R.ingredients[i - 1].food)

LegFrom(i) ==
  IF i = 1 THEN R.start_room ELSE LegTo(i - 1)

\* the room reached from `room` by the 'go' commands of cmds, each through an
\* exit of the room it is issued in; 0 once a command finds no such exit
RECURSIVE Follow(_, _, _)
Follow(m, room, cmds) ==
  IF cmds = <<>> \/ room = 0 THEN room
  ELSE IF Head(cmds).verb # "go" THEN Follow(m, room, Tail(cmds))
  ELSE LET exits == {q \in Adjacent(m, room) : Direction(m, room, q) = Head(cmds).obj}
       IN  IF Cardinality(exits) # 1 THEN 0
           ELSE Follow(m, CHOOSE q \in exits : TRUE, Tail(cmds))

\* C23: the walkthrough has one leg to the checkout and one to each
\* ingredient in recipe order; a leg has as many 'go' commands as the
\* shortest path between its two rooms has edges, each 'go' takes an exit of
\* the room the player is in, and the leg ends in the room that holds its
\* target.
C23_LegsAreShortest ==
  WalkthroughBuilt =>
    /\ Len(LegEnds) = 1 + Len(R.ingredients)
    /\ \A i \in DOMAIN LegEnds :
         /\ LegTo(i) # 0
         /\ Len(SelectSeq(Leg(i), LAMBDA c : c.verb = "go")) = Distance(M, LegFrom(i), LegTo(i))
         /\ Follow(M, LegFrom(i), Leg(i)) = LegTo(i)
         /\ i > 1 => walkthrough[LegEnds[i]].obj = M.entities[R.ingredients[i - 1].food].name

\* a walkthrough that starts outside the checkout and has a leg to an
\* ingredient two rooms away or more
C23_Witness ==
  /\ WalkthroughBuilt
  /\ Distance(M, LegFrom(1), LegTo(1)) >= 1
  /\ \E i \in DOMAIN LegEnds : i > 1 /\ Distance(M, LegFrom(i), LegTo(i)) >= 2

\* M.quests is set
QuestsBuilt ==
  pc \in {"walkthrough", "build", "done", "replay", "played", "compared"}

\* the first quest make builds for the i-th ingredient
FirstQuestOf(i) ==
  quests[4 * (i - 1) + 1]

\* C24, as stated: the quest without win condition that make creates first
\* for each ingredient fails on the fact that the ingredient is consumed,
\* and on nothing else.
C24_FailsOnConsumed ==
  QuestsBuilt =>
    \A i \in DOMAIN R.ingredients :
      /\ FirstQuestOf(i).win_events = <<>>
      /\ FirstQuestOf(i).fail_events = <<Event("consumed", R.ingredients[i].food)>>

\* C24, amended: for each ingredient make creates a 'not burned' quest with
\* no win condition whose sole fail condition is the fact that the
\* ingredient is burned; 'consumed' is a fail condition of the cooking and
\* of the cutting quest, not of this one.
C24_FailsOnBurned ==
  QuestsBuilt =>
    /\ Len(quests) = 4 * Len(R.ingredients)
    /\ \A i \in DOMAIN R.ingredients :
         /\ FirstQuestOf(i).win_events = <<>>
         /\ FirstQuestOf(i).fail_events = <<Event("burned", R.ingredients[i].food)>>

\* the quests of a recipe of three ingredients
C24_Witness ==
  /\ QuestsBuilt
  /\ Len(R.ingredients) = 3
  /\ Len(quests) = 12

\* the cooking and the cutting quest make builds for the i-th ingredient
CookingQuestOf(i) ==
  quests[4 * i - 1]

CuttingQuestOf(i) ==
  quests[4 * i]

\* the win events of a quest on the state `target` of the vocabulary `types`:
\* the fact target(food) when the target is not the default state and the
\* food does not carry it, none otherwise
WinsOnTarget(quest, types, target, food) ==
  quest.win_events = IF target # types[1] /\ target \notin M.entities[food].props
                       THEN <<Event(target, food)>>
                       ELSE <<>>

\* the fail events of a quest are consumed(food), first, and one event for
\* each state of `states` other than the target
FailsOn(quest, states, target, food) ==
  /\ quest.fail_events # <<>>
  /\ quest.fail_events[1] = Event("consumed", food)
  /\ Range(Tail(quest.fail_events)) = {Event(t, food) : t \in states \ {target}}
  /\ Len(quest.fail_events) = 1 + Cardinality(states \ {target})

\* C25, as stated: the fail conditions of the cooking quest are 'consumed'
\* and every cooking state other than the target, those of the cutting
\* quest 'consumed' and every cutting state other than the target.
C25_FailsOnEveryOtherState ==
  QuestsBuilt =>
    \A i \in DOMAIN R.ingredients :
      LET g == R.ingredients[i]
      IN  /\ WinsOnTarget(CookingQuestOf(i), TYPES_OF_COOKING, g.cooking, g.food)
          /\ FailsOn(CookingQuestOf(i), Range(TYPES_OF_COOKING), g.cooking, g.food)
          /\ WinsOnTarget(CuttingQuestOf(i), TYPES_OF_CUTTING, g.cutting, g.food)
          /\ FailsOn(CuttingQuestOf(i), Range(TYPES_OF_CUTTING), g.cutting, g.food)

\* C25, amended: the cooking quest of an ingredient has as win condition the
\* target cooking fact exactly when the target is not 'raw' and the food
\* does not carry it already, and as fail conditions 'consumed' and every
\* cooking state other than the target and other than the default 'raw';
\* the cutting quest likewise, over the cutting states with default 'uncut'.
C25_FailsOnOtherProcessedStates ==
  QuestsBuilt =>
    \A i \in DOMAIN R.ingredients :
      LET g == R.ingredients[i]
      IN  /\ WinsOnTarget(CookingQuestOf(i), TYPES_OF_COOKING, g.cooking, g.food)
          /\ FailsOn(CookingQuestOf(i), Range(Tail(TYPES_OF_COOKING)), g.cooking, g.food)
          /\ WinsOnTarget(CuttingQuestOf(i), TYPES_OF_CUTTING, g.cutting, g.food)
          /\ FailsOn(CuttingQuestOf(i), Range(Tail(TYPES_OF_CUTTING)), g.cutting, g.food)

\* the quests of a recipe with an ingredient still to be cooked, whose
\* cooking quest has a win condition, and an ingredient to stay uncut, whose
\* cutting quest has none
C25_Witness ==
  /\ QuestsBuilt
  /\ \E i \in DOMAIN R.ingredients :
       /\ R.ingredients[i].cooking # "raw"
       /\ CookingQuestOf(i).win_events # <<>>
  /\ \E i \in DOMAIN R.ingredients :
       /\ R.ingredients[i].cutting = "uncut"
       /\ CuttingQuestOf(i).win_events = <<>>

\* the distractors are placed for the ingredients chosen first
DistractorsPlaced ==
  pc = "reshuffle"

\* the other allowed foods whose first (last) word is the first (last) word
\* of the name
SharesFirstWord(allowed_foods, name) ==
  SelectSeq(allowed_foods,
            LAMBDA f : FirstWord(CodePoints[f]) = FirstWord(CodePoints[name]) /\ f # name)

SharesLastWord(allowed_foods, name) ==
  SelectSeq(allowed_foods,
            LAMBDA f : LastWord(CodePoints[f]) = LastWord(CodePoints[name]) /\ f # name)

\* C26: for an ingredient whose name has several words the pools of lexical
\* distractor candidates are the other allowed foods that share its first
\* word and those that share its last word: a name that only begins or ends
\* with the same characters is in neither pool.
C26_PoolsShareWords ==
  DistractorsPlaced =>
    \A k \in DOMAIN R.ingredient_foods :
      LET name == M.entities[R.ingredient_foods[k]].name
      IN  Blanks(CodePoints[name]) # {} =>
            /\ SamePrefixList(Allowed(settings).foods, name) = SharesFirstWord(Allowed(settings).foods, name)
            /\ SameSuffixList(Allowed(settings).foods, name) = SharesLastWord(Allowed(settings).foods, name)

\* the foods of the world carry different names
FoodsDiffer(m) ==
  \A k, l \in FindAll(m, "f") : k # l => m.entities[k].name # m.entities[l].name

\* the foods of m that are neither ingredients nor random distractors of r:
\* those the lexical pools added
Lexical(m, r) ==
  FindAll(m, "f") \ (Range(r.ingredient_foods) \cup Range(r.distractors))

\* the ingredients of r whose names have several words
ManyWords(m, r) ==
  {i \in Range(r.ingredient_foods) : Blanks(CodePoints[m.entities[i].name]) # {}}

\* the lexical pools of r that are not empty
Pools(m, r, allowed_foods) ==
  {p \in ManyWords(m, r) \X {"prefix", "suffix"} :
     IF p[2] = "prefix" THEN SamePrefixList(allowed_foods, m.entities[p[1]].name) # <<>>
     ELSE SameSuffixList(allowed_foods, m.entities[p[1]].name) # <<>>}

\* the step of make that places the distractors: what was in the world stays
\* as and where it was; every food added by a lexical pool is a candidate of
\* an ingredient and lies in the holder of that ingredient; the pools add at
\* most one food each; the random distractors are new foods as well
C27_DistractorStep ==
  (pc = "distractors" /\ pc' = "reshuffle") =>
    /\ Len(M'.entities) >= Len(M.entities)
    /\ SubSeq(M'.entities, 1, Len(M.entities)) = M.entities
    /\ R'.ingredient_foods = R.ingredient_foods
    /\ Range(R'.distractors) \subseteq (DOMAIN M'.entities \ DOMAIN M.entities)
    /\ \A e \in Lexical(M', R') :
         /\ e \notin DOMAIN M.entities
         /\ \E i \in ManyWords(M', R') :
              /\ M'.entities[e].parent = M'.entities[i].parent
              /\ \/ InSeq(M'.entities[e].name, SamePrefixList(Allowed(settings').foods, M'.entities[i].name))
                 \/ InSeq(M'.entities[e].name, SameSuffixList(Allowed(settings').foods, M'.entities[i].name))
    /\ Cardinality(Lexical(M', R')) <= Cardinality(Pools(M', R', Allowed(settings').foods))

\* C27: distractor placement never duplicates a food: no two foods of the
\* world have the same name, before and after both distractor phases; each
\* lexical pool adds at most one food, in the holder of its ingredient; a
\* candidate that exists already is neither moved nor made again.
C27_NoDuplicateFood ==
  /\ []FoodsDiffer(M)
  /\ [][C27_DistractorStep]_vars

\* both phases added foods: a lexical pool and the random draw
C27_Witness ==
  /\ DistractorsPlaced
  /\ Lexical(M, R) # {}
  /\ R.distractors # <<>>
  /\ \E i \in Range(R.ingredient_foods) : Blanks(CodePoints[M.entities[i].name]) = {}

\* the foods of a list are all different
Distinct(x) ==
  \A k, l \in DOMAIN x : k # l => x[k] # x[l]

\* the reshuffle took place: a seed above zero was read and make went on
Reshuffled ==
  /\ "recipe_seed" \in DOMAIN settings
  /\ settings.recipe_seed > 0
  /\ RecipeFinal

\* the reshuffle step of make with a seed above zero and the take skill,
\* when it does not raise: the new recipe has the requested number of
\* different foods, all of them former ingredients or distractors in the
\* world, each with a preparation of its allowed list; the world is left alone
C28_ReshuffleStep ==
  (pc = "reshuffle" /\ pc' = "facts" /\ settings'.recipe_seed > 0) =>
    /\ settings'.take # 0
    /\ Len(R'.ingredient_foods) = R.nb_ingredients
    /\ R'.nb_ingredients = R.nb_ingredients
    /\ Distinct(R'.ingredient_foods)
    /\ Range(R'.ingredient_foods) \subseteq Range(R.ingredient_foods) \cup Range(R.distractors)
    /\ Range(R.ingredient_foods) \cup Range(R.distractors) \subseteq FindAll(M, "f")
    /\ Len(R'.ingredients) = Len(R'.ingredient_foods)
    /\ \A k \in DOMAIN R'.ingredients :
         LET g == R'.ingredients[k]
             name == M.entities[g.food].name
         IN  /\ g.food = R'.ingredient_foods[k]
             /\ name \in DOMAIN Allowed(settings').preps
             /\ InSeq(<<g.cooking, g.cutting>>, Allowed(settings').preps[name])
    /\ M' = M

\* the foods that an event of some quest is about
QuestFoods ==
  UNION {{quests[k].win_events[j].food : j \in DOMAIN quests[k].win_events}
         \cup {quests[k].fail_events[j].food : j \in DOMAIN quests[k].fail_events} :
         k \in DOMAIN quests}

\* after a reshuffle the ingredient facts and the quests are those of the
\* new recipe: a food that is not in it is no ingredient and has no quest
C28_OnlyTheNewRecipe ==
  Reshuffled =>
    /\ \A k \in DOMAIN R.ingredient_foods :
         IngredientProperty[k] \in M.entities[R.ingredient_foods[k]].props
    /\ \A e \in FindAll(M, "f") \ Range(R.ingredient_foods) :
         /\ M.entities[e].props \cap Range(IngredientProperty) = {}
         /\ e \notin QuestFoods
    /\ Cardinality(FindAll(M, "ingredient")) = R.nb_ingredients

\* C28: with a reshuffle seed and the take skill the final recipe has
\* exactly the requested number of different foods, each a former
\* ingredient or a distractor placed in the world, each with a preparation
\* of its allowed list; a food the reshuffle dropped from the recipe gets no
\* ingredient fact and no quest.
C28_ReshuffledRecipe ==
  /\ []C28_OnlyTheNewRecipe
  /\ [][C28_ReshuffleStep]_vars

\* a finished instance whose reshuffled recipe holds a random distractor,
\* in the place of an ingredient chosen first
C28_Witness ==
  /\ Finished
  /\ settings.recipe_seed > 0
  /\ Range(R.ingredient_foods) \cap Range(R.distractors) # {}
  /\ quests # <<>>

\* C29: door naming always succeeds: pick_name finds in every name list it
\* is given a name that no entity carries, so its `assert False` is never
\* reached, and no door shares its name with another door or entity.
C29_DoorNamingSucceeds ==
  /\ err # "AssertionError: pick_name"
  /\ \A d \in FindAll(M, "d") :
       /\ M.entities[d].name # ""
       /\ \A e \in DOMAIN M.entities \ {d} : M.entities[e].name # M.entities[d].name

\* what the player holds when the game starts
HeldAtStart(m) ==
  {e \in DOMAIN m.entities : m.entities[e].parent = Inventory}

\* the commands of the walkthrough, up to the k-th, with the verb `verb`
Issued(verb, k) ==
  {j \in 1..k : walkthrough[j].verb = verb}

\* the limit the claim gives: the recipe size, one more for the knife when a
\* single ingredient is to be cut
ClaimedLimit ==
  IF settings.recipe = 1 /\ settings.cut THEN 2 ELSE settings.recipe

====
